---- MODULE Spec2Model ----
(***************************************************************************)
(* Scope review wizard of rep-calculator: the claim record held by the     *)
(* review page (trades -> line items / supplements, deductible), the       *)
(* reviewer's mutations, the aggregation calculateTotals that every render *)
(* runs, calculateWorkNotDoing, and the summary page's payment schedule.   *)
(*                                                                         *)
(* Currency amounts are integers (whole dollars).  The schedule's          *)
(* totalRcv * 0.5 is kept exact by carrying dueToday and dueSub doubled    *)
(* (dueTodayX2 = 2 * dueToday).  An optional acv is a sequence of length   *)
(* 0 (absent) or 1.  Free-text fields that no computation reads (quantity, *)
(* supplement title) are left out of the records; a line item has notes    *)
(* once updateNotes has set them.                                          *)
(***************************************************************************)
EXTENDS Integers, Sequences, FiniteSets, TLC

\* ---------------------------------------------------------------- bounds
\* size of a claim record: its trades, line items and supplements together
MaxSize == 5

\* values the reviewer can type into the number inputs
DeductibleVals == {-50, 0, 50}
AmountVals == {0, 60}
\* Date.now() values an addSupplement call can observe
ClockVals == {1}

VARIABLES stage, trades, deductible, totals, workNotDoing

vars == <<stage, trades, deductible, totals, workNotDoing>>

\* The extraction request in flight and the pages around it:
\*   pc            where the request is (idle, in a route, back in the page)
\*   route         the API route that serves it
\*   result        what the call of the language model came back with
\*   jsonString    the cleaned text of the model
\*   parsedResult  the value parsed from it
\*   lastError     the message of the error being handled
\*   response      the route's response: HTTP status and body text
\*   scopeData     sessionStorage under the key scopeData: <<>> or <<text>>
\*   error         the upload page's error message
\*   loading       the review page's loading flag
\*   renderError   the review page's render has thrown
VARIABLES pc, route, result, jsonString, parsedResult, lastError, response,
          scopeData, error, loading, renderError

xvars == <<pc, route, result, jsonString, parsedResult, lastError, response,
           scopeData, error, loading, renderError>>

\* claim metadata held by the review and summary pages
VARIABLES claimNumber, claimAdjuster, rep, customer

mvars == <<claimNumber, claimAdjuster, rep, customer>>

\* summary page: the delivery to JobNimbus
VARIABLES sendingToJobNimbus, sendingError

svars == <<sendingToJobNimbus, sendingError>>

\* upload page: the customer search, with the debounce timers that are pending
\* (timers) and the search requests that are in flight (fetches)
VARIABLES customerSearch, searchResults, showSearchResults, searching,
          searchTimeoutRef, selectedCustomer, timers, fetches

qvars == <<customerSearch, searchResults, showSearchResults, searching,
           searchTimeoutRef, selectedCustomer, timers, fetches>>

\* the pathname of the request to the route that serves a saved PDF
VARIABLES pathname

yvars == <<mvars, svars, qvars, pathname>>

allvars == <<vars, xvars, yvars>>

\* ---------------------------------------------------------------- helpers
Max(a, b) == IF a >= b THEN a ELSE b

\* JavaScript truthiness of the optional number item.acv: absent and 0 are falsy
AcvTruthy(item) == Len(item.acv) = 1 /\ item.acv[1] # 0

\* ---------------------------------------------------------------- extraction result
\* The documents the wizard is run on: trade j, line item k of the extracted
\* record.  Trade 1 is the record of the leftover-conservation scenario
\* (rcv 100 / acv 60, rcv 50 / acv 30); every third item carries no acv.
\* Ids are positions: trade ids are unique, item ids unique within a trade.
ItemRcv(j, k) == (100 * j) \div k

ItemAcv(j, k) == IF (j + k) % 3 = 1 THEN <<>> ELSE <<(ItemRcv(j, k) * 3) \div 5>>

TradeName(j) == "Trade" \o ToString(j)

ItemDescription(j, k) == "item " \o ToString(j) \o "." \o ToString(k)

\* a line item as the extraction emits it ("All items should be checked: false
\* by default")
ExtractedItem(j, k) ==
  [id |-> k, description |-> ItemDescription(j, k),
   rcv |-> ItemRcv(j, k), acv |-> ItemAcv(j, k), checked |-> FALSE]

\* a trade with m line items; dup makes it reuse the first trade's name
ExtractedTrade(j, m, dup) ==
  [id |-> j,
   name |-> IF dup THEN TradeName(1) ELSE TradeName(j),
   checked |-> FALSE,
   supplements |-> <<>>,
   lineItems |-> [k \in 1..m |-> ExtractedItem(j, k)]]

\* ---------------------------------------------------------------- aggregation
\* lineItemsLoop as it would be if an absent acv fell back to the item's rcv
RECURSIVE lineItemsLoopAcvDefaultsToRcv(_, _, _)
lineItemsLoopAcvDefaultsToRcv(items, n, acc) ==
  IF n = 0 THEN acc
  ELSE LET a == lineItemsLoopAcvDefaultsToRcv(items, n - 1, acc)
           item == items[n]
       IN IF item.checked
          THEN [a EXCEPT !.tradeRcv = @ + item.rcv,
                         !.tradeAcv = IF AcvTruthy(item) THEN @ + item.acv[1]
                                      ELSE @ + item.rcv]
          ELSE [a EXCEPT !.leftoverAcv = IF AcvTruthy(item) THEN @ + item.acv[1] ELSE @]

\* trade.lineItems.forEach: { tradeRcv, tradeAcv, leftoverAcv } after items 1..n,
\* starting from the accumulator acc
RECURSIVE lineItemsLoop(_, _, _)
lineItemsLoop(items, n, acc) ==
  IF n = 0 THEN acc
  ELSE LET a == lineItemsLoop(items, n - 1, acc)
           item == items[n]
       IN IF item.checked
          THEN [a EXCEPT !.tradeRcv = @ + item.rcv,
                         !.tradeAcv = IF AcvTruthy(item) THEN @ + item.acv[1] ELSE @]
          ELSE [a EXCEPT !.leftoverAcv = IF AcvTruthy(item) THEN @ + item.acv[1] ELSE @]

\* trade.supplements.reduce((sum, supp) => sum + supp.amount, 0)
RECURSIVE supplementTotal(_, _)
supplementTotal(supps, n) ==
  IF n = 0 THEN 0 ELSE supplementTotal(supps, n - 1) + supps[n].amount

\* tradeSums as it would be if supplements counted only in a checked trade
tradeSumsSupplementsOfCheckedTrade(trade, leftover) ==
  LET a == lineItemsLoop(trade.lineItems, Len(trade.lineItems),
                         [tradeRcv |-> 0, tradeAcv |-> 0, leftoverAcv |-> leftover])
      s == IF trade.checked
           THEN supplementTotal(trade.supplements, Len(trade.supplements))
           ELSE 0
  IN [tradeRcv |-> a.tradeRcv + s, tradeAcv |-> a.tradeAcv + s,
      leftoverAcv |-> a.leftoverAcv, supplementTotal |-> s]

\* tradeSums as it would be if an unchecked trade's items were left out of
\* the leftover
tradeSumsLeftoverOfCheckedTrade(trade, leftover) ==
  LET a == lineItemsLoop(trade.lineItems, Len(trade.lineItems),
                         [tradeRcv |-> 0, tradeAcv |-> 0, leftoverAcv |-> leftover])
      s == supplementTotal(trade.supplements, Len(trade.supplements))
  IN [tradeRcv |-> a.tradeRcv + s, tradeAcv |-> a.tradeAcv + s,
      leftoverAcv |-> IF trade.checked THEN a.leftoverAcv ELSE leftover,
      supplementTotal |-> s]

\* tradeSums as it would be if the line items of an unchecked trade were skipped
tradeSumsItemsOfCheckedTrade(trade, leftover) ==
  LET a == IF trade.checked
           THEN lineItemsLoop(trade.lineItems, Len(trade.lineItems),
                              [tradeRcv |-> 0, tradeAcv |-> 0, leftoverAcv |-> leftover])
           ELSE [tradeRcv |-> 0, tradeAcv |-> 0, leftoverAcv |-> leftover]
      s == supplementTotal(trade.supplements, Len(trade.supplements))
  IN [tradeRcv |-> a.tradeRcv + s, tradeAcv |-> a.tradeAcv + s,
      leftoverAcv |-> a.leftoverAcv, supplementTotal |-> s]

\* the body of trades.forEach for one trade: its tradeRcv and tradeAcv after
\* the supplement total has been added, and the leftover it adds
tradeSums(trade, leftover) ==
  LET a == lineItemsLoop(trade.lineItems, Len(trade.lineItems),
                         [tradeRcv |-> 0, tradeAcv |-> 0, leftoverAcv |-> leftover])
      s == supplementTotal(trade.supplements, Len(trade.supplements))
  IN [tradeRcv |-> a.tradeRcv + s, tradeAcv |-> a.tradeAcv + s,
      leftoverAcv |-> a.leftoverAcv, supplementTotal |-> s]

tradeRcv(trade) == tradeSums(trade, 0).tradeRcv

tradeAcv(trade) == tradeSums(trade, 0).tradeAcv

EmptyTotals ==
  [totalRcv |-> 0, totalAcv |-> 0, totalSupplements |-> 0, leftoverAcv |-> 0,
   tradeTotals |-> [nm \in {} |-> [rcv |-> 0, acv |-> 0]]]

\* tradesLoop as it would be if a name already in the table kept its entry
RECURSIVE tradesLoopFirstEntryKept(_, _)
tradesLoopFirstEntryKept(ts, n) ==
  IF n = 0 THEN EmptyTotals
  ELSE LET t == tradesLoopFirstEntryKept(ts, n - 1)
           trade == ts[n]
           s == tradeSums(trade, t.leftoverAcv)
       IN [totalRcv |-> t.totalRcv + s.tradeRcv,
           totalAcv |-> t.totalAcv + s.tradeAcv,
           totalSupplements |-> t.totalSupplements + s.supplementTotal,
           leftoverAcv |-> s.leftoverAcv,
           tradeTotals |->
             [nm \in DOMAIN t.tradeTotals \cup {trade.name} |->
                IF nm \in DOMAIN t.tradeTotals
                THEN t.tradeTotals[nm]
                ELSE [rcv |-> s.tradeRcv, acv |-> s.tradeAcv]]]

\* tradesLoop as it would be if totalSupplements were assigned, not added to
RECURSIVE tradesLoopSupplementsAssigned(_, _)
tradesLoopSupplementsAssigned(ts, n) ==
  IF n = 0 THEN EmptyTotals
  ELSE LET t == tradesLoopSupplementsAssigned(ts, n - 1)
           trade == ts[n]
           s == tradeSums(trade, t.leftoverAcv)
       IN [totalRcv |-> t.totalRcv + s.tradeRcv,
           totalAcv |-> t.totalAcv + s.tradeAcv,
           totalSupplements |-> s.supplementTotal,
           leftoverAcv |-> s.leftoverAcv,
           tradeTotals |->
             [nm \in DOMAIN t.tradeTotals \cup {trade.name} |->
                IF nm = trade.name
                THEN [rcv |-> s.tradeRcv, acv |-> s.tradeAcv]
                ELSE t.tradeTotals[nm]]]

\* trades.forEach over trades 1..n
RECURSIVE tradesLoop(_, _)
tradesLoop(ts, n) ==
  IF n = 0 THEN EmptyTotals
  ELSE LET t == tradesLoop(ts, n - 1)
           trade == ts[n]
           s == tradeSums(trade, t.leftoverAcv)
       IN [totalRcv |-> t.totalRcv + s.tradeRcv,
           totalAcv |-> t.totalAcv + s.tradeAcv,
           totalSupplements |-> t.totalSupplements + s.supplementTotal,
           leftoverAcv |-> s.leftoverAcv,
           tradeTotals |->
             [nm \in DOMAIN t.tradeTotals \cup {trade.name} |->
                IF nm = trade.name
                THEN [rcv |-> s.tradeRcv, acv |-> s.tradeAcv]
                ELSE t.tradeTotals[nm]]]

\* calculateTotals as it would be if the running totals were kept outside the
\* function and not reset between calls
calculateTotalsNotReset(ts) ==
  LET t == tradesLoop(ts, Len(ts))
  IN [t EXCEPT !.totalRcv = @ + totals.totalRcv,
               !.totalAcv = @ + totals.totalAcv,
               !.totalSupplements = @ + totals.totalSupplements,
               !.leftoverAcv = @ + totals.leftoverAcv]

calculateTotals(ts) == tradesLoop(ts, Len(ts))

\* ---------------------------------------------------------------- work not doing
\* uncheckedItems after trade.lineItems.forEach over items 1..n of a checked trade
RECURSIVE uncheckedLines(_, _, _)
uncheckedLines(trade, n, acc) ==
  IF n = 0 THEN acc
  ELSE LET a == uncheckedLines(trade, n - 1, acc)
           item == trade.lineItems[n]
       IN IF ~item.checked
          THEN Append(a, trade.name \o ": " \o item.description)
          ELSE a

\* uncheckedItems as it would be if a trade counted as unchecked when none of
\* its line items is checked
RECURSIVE uncheckedItemsByLineItems(_, _)
uncheckedItemsByLineItems(ts, n) ==
  IF n = 0 THEN <<>>
  ELSE LET a == uncheckedItemsByLineItems(ts, n - 1)
           trade == ts[n]
       IN IF \A k \in DOMAIN trade.lineItems : ~trade.lineItems[k].checked
          THEN Append(a, trade.name \o " (entire trade)")
          ELSE uncheckedLines(trade, Len(trade.lineItems), a)

\* uncheckedItems after trades.forEach over trades 1..n
RECURSIVE uncheckedItems(_, _)
uncheckedItems(ts, n) ==
  IF n = 0 THEN <<>>
  ELSE LET a == uncheckedItems(ts, n - 1)
           trade == ts[n]
       IN IF ~trade.checked
          THEN Append(a, trade.name \o " (entire trade)")
          ELSE uncheckedLines(trade, Len(trade.lineItems), a)

\* Array.prototype.join('\n')
RECURSIVE join(_, _)
join(lines, n) ==
  IF n = 0 THEN ""
  ELSE IF n = 1 THEN lines[1]
  ELSE join(lines, n - 1) \o "\n" \o lines[n]

calculateWorkNotDoing(ts) ==
  LET lines == uncheckedItems(ts, Len(ts)) IN join(lines, Len(lines))

\* ---------------------------------------------------------------- displays
\* review page, scope card: ${(totalRcv - deductible).toLocaleString()}
insuranceWillPay == totals.totalRcv - deductible

\* review page, sidebar of the second variant: Math.max(0, totalRcv - deductible)
insurancePays == Max(0, totals.totalRcv - deductible)

homeownerPays == deductible

\* review page, header of trade j: tradeTotals[trade.name]?.rcv and ?.acv
displayedTradeTotals(j) == totals.tradeTotals[trades[j].name]

\* dueToday as it would be with <= in place of <
dueTodayX2AtMostHalf ==
  IF 2 * totals.totalAcv <= totals.totalRcv
  THEN 2 * (totals.totalAcv + deductible)
  ELSE totals.totalRcv

\* summary page: dueToday = totalAcv < totalRcv * 0.5 ? totalAcv + deductible : totalRcv * 0.5
dueTodayX2 ==
  IF 2 * totals.totalAcv < totals.totalRcv
  THEN 2 * (totals.totalAcv + deductible)
  ELSE totals.totalRcv

\* dueSub as it would be without the clamp
dueSubX2Unclamped == 2 * totals.totalAcv - dueTodayX2

\* summary page: dueSub = Math.max(0, totalAcv - dueToday)
dueSubX2 == Max(0, 2 * totals.totalAcv - dueTodayX2)

\* ================================================================ extraction
\* The extraction routes turn the model's output text into a claim record.
\* Text is a sequence of characters (one-character strings).

\* ---------------------------------------------------------------- text
\* the characters \s matches and trim() removes, among those of the alphabet
WS == {" ", "\n", "\t", "\r"}

\* [a-z] under the i flag
Letters ==
  {"a","b","c","d","e","f","g","h","i","j","k","l","m",
   "n","o","p","q","r","s","t","u","v","w","x","y","z",
   "A","B","C","D","E","F","G","H","I","J","K","L","M",
   "N","O","P","Q","R","S","T","U","V","W","X","Y","Z"}

DigitChars == <<"0","1","2","3","4","5","6","7","8","9">>

Digits == {DigitChars[d] : d \in 1..10}

Min(S) == CHOOSE x \in S : \A y \in S : x <= y

\* index of the first character at or after i that is not in C (Len(s)+1 if none)
RECURSIVE skipWhile(_, _, _)
skipWhile(s, i, C) ==
  IF i <= Len(s) /\ s[i] \in C THEN skipWhile(s, i + 1, C) ELSE i

\* index of the last character at or before i that is not in C (0 if none)
RECURSIVE skipBack(_, _, _)
skipBack(s, i, C) ==
  IF i >= 1 /\ s[i] \in C THEN skipBack(s, i - 1, C) ELSE i

\* index of the first c among the characters a..b, 0 if there is none
RECURSIVE firstIn(_, _, _, _)
firstIn(s, c, a, b) ==
  IF a > b THEN 0
  ELSE IF a = b THEN (IF s[a] = c THEN a ELSE 0)
  ELSE LET left == firstIn(s, c, a, (a + b) \div 2)
       IN  IF left # 0 THEN left ELSE firstIn(s, c, (a + b) \div 2 + 1, b)

\* index of the first c at or after i, 0 if there is none
indexOf(s, c, i) == firstIn(s, c, i, Len(s))

\* String.prototype.trim
trim(s) == SubSeq(s, skipWhile(s, 1, WS), skipBack(s, Len(s), WS))

\* the literal p occurs in s at index i
matchesAt(s, i, p) ==
  /\ i >= 1
  /\ i + Len(p) - 1 <= Len(s)
  /\ SubSeq(s, i, i + Len(p) - 1) = p

\* String.prototype.startsWith / includes / substring(0, n)
startsWith(s, p) == matchesAt(s, 1, p)

includes(s, p) == \E i \in 1..(Len(s) + 1) : matchesAt(s, i, p)

substring0(s, n) == SubSeq(s, 1, IF Len(s) < n THEN Len(s) ELSE n)

\* String.prototype.replace(/p/g, r) for a literal p, from index i on
RECURSIVE replaceAll(_, _, _, _)
replaceAll(s, i, p, r) ==
  LET hits == {k \in i..Len(s) : matchesAt(s, k, p)}
  IN  IF hits = {} THEN SubSeq(s, i, Len(s))
      ELSE SubSeq(s, i, Min(hits) - 1) \o r \o replaceAll(s, Min(hits) + Len(p), p, r)

\* ---------------------------------------------------------------- fence stripping
\* the backquote character, which a string literal cannot hold
Backquote == "<backquote>"

\* the markdown fence marker, three backquotes (FENCE in the comments below)
Fence == <<Backquote, Backquote, Backquote>>

\* jsonString.replace(/^FENCE[a-z]*\n/i, ''): the opening marker, a run of
\* letters and the newline; nothing is replaced when anything but a newline
\* follows the letters
stripOpeningFence(s) ==
  LET j == skipWhile(s, Len(Fence) + 1, Letters)
  IN  IF startsWith(s, Fence) /\ j <= Len(s) /\ s[j] = "\n"
      THEN SubSeq(s, j + 1, Len(s))
      ELSE s

\* jsonString.replace(/\nFENCE\s*$/, ''): the leftmost newline + marker that only
\* whitespace follows up to the end of the text
stripClosingFence(s) ==
  LET hits == {i \in 1..Len(s) :
                 /\ s[i] = "\n"
                 /\ matchesAt(s, i, <<"\n">> \o Fence)
                 /\ skipWhile(s, i + 1 + Len(Fence), WS) > Len(s)}
  IN  IF hits = {} THEN s ELSE SubSeq(s, 1, Min(hits) - 1)

\* the cleaning both routes apply to the model's text before parsing it
cleanText(text) ==
  LET trimmed == trim(text)
      stripped == IF startsWith(trimmed, Fence)
                  THEN stripClosingFence(stripOpeningFence(trimmed))
                  ELSE trimmed
  IN  trim(stripped)

\* ---------------------------------------------------------------- repairJSON
Quote == "\""

Backslash == "\\"

\* the character U+FFFF that the quote fixing uses as a placeholder
Placeholder == "U+FFFF"

Closers == {"}", "]"}

\* a match of /,(\s*[}\]])/ starts at index i
trailingCommaAt(s, i) ==
  LET j == skipWhile(s, i + 1, WS)
  IN  s[i] = "," /\ j <= Len(s) /\ s[j] \in Closers

\* repaired.replace(/,(\s*[}\]])/g, '$1') from index i on: one left-to-right
\* pass; a match is replaced by its group and the scan goes on after the match
RECURSIVE removeTrailingCommas(_, _)
removeTrailingCommas(s, i) ==
  LET hits == {k \in i..Len(s) : trailingCommaAt(s, k)}
      at == Min(hits)
      groupEnd == skipWhile(s, at + 1, WS)
  IN  IF hits = {} THEN SubSeq(s, i, Len(s))
      ELSE SubSeq(s, i, at - 1) \o SubSeq(s, at + 1, groupEnd)
             \o removeTrailingCommas(s, groupEnd + 1)

\* the callback's escapedValue: \" to the placeholder, " to \", placeholder to \"
escapedValue(value) ==
  LET held == replaceAll(value, 1, <<Backslash, Quote>>, <<Placeholder>>)
      escaped == replaceAll(held, 1, <<Quote>>, <<Backslash, Quote>>)
  IN  replaceAll(escaped, 1, <<Placeholder>>, <<Backslash, Quote>>)

\* the match of /"([^"]*)"(\s*:\s*)"([^"]*)"/ that starts at index i, if any:
\* key and value each run up to the next double quote
quotedPairAt(s, i) ==
  LET keyEnd == indexOf(s, Quote, i + 1)
      colonAt == skipWhile(s, keyEnd + 1, WS)
      valueStart == skipWhile(s, colonAt + 1, WS)
      valueEnd == indexOf(s, Quote, valueStart + 1)
  IN  IF /\ s[i] = Quote
         /\ keyEnd # 0
         /\ colonAt <= Len(s) /\ s[colonAt] = ":"
         /\ valueStart <= Len(s) /\ s[valueStart] = Quote
         /\ valueEnd # 0
      THEN [found |-> TRUE,
            key |-> SubSeq(s, i + 1, keyEnd - 1),
            colon |-> SubSeq(s, keyEnd + 1, valueStart - 1),
            value |-> SubSeq(s, valueStart + 1, valueEnd - 1),
            end |-> valueEnd]
      ELSE [found |-> FALSE, key |-> <<>>, colon |-> <<>>, value |-> <<>>, end |-> i]

\* repaired.replace(/"([^"]*)"(\s*:\s*)"([^"]*)"/g, callback) from index i on:
\* the scan tries each double quote in turn and goes on after a match
RECURSIVE escapeQuotedValues(_, _)
escapeQuotedValues(s, i) ==
  LET at == indexOf(s, Quote, i)
      m == quotedPairAt(s, at)
  IN  IF at = 0 THEN SubSeq(s, i, Len(s))
      ELSE IF m.found
      THEN SubSeq(s, i, at - 1)
             \o <<Quote>> \o m.key \o <<Quote>> \o m.colon
             \o <<Quote>> \o escapedValue(m.value) \o <<Quote>>
             \o escapeQuotedValues(s, m.end + 1)
      ELSE SubSeq(s, i, at) \o escapeQuotedValues(s, at + 1)

repairJSON(str) == escapeQuotedValues(removeTrailingCommas(str, 1), 1)

\* ---------------------------------------------------------------- JSON values
\* A JavaScript value as JSON.parse builds it: kind is "object", "array",
\* "string", "number", "true", "false", "null" (or "undefined" for a property
\* that is not there); text holds a string's characters or a number's
\* digits; members holds an object's properties or an array's elements (with
\* the empty key), in order.
JValue(kind, text, members) == [kind |-> kind, text |-> text, members |-> members]

JString(text) == JValue("string", text, <<>>)

JNumber(text) == JValue("number", text, <<>>)

JArray(members) == JValue("array", <<>>, members)

JObject(members) == JValue("object", <<>>, members)

JNull == JValue("null", <<>>, <<>>)

JFalse == JValue("false", <<>>, <<>>)

JTrue == JValue("true", <<>>, <<>>)

Undefined == JValue("undefined", <<>>, <<>>)

Member(key, val) == [key |-> key, val |-> val]

\* obj[key] = val: a repeated property keeps its place and takes the new value
put(members, key, val) ==
  IF \E k \in DOMAIN members : members[k].key = key
  THEN [k \in DOMAIN members |->
          IF members[k].key = key THEN Member(key, val) ELSE members[k]]
  ELSE Append(members, Member(key, val))

\* the property read value.key on an object, array, string, number or boolean
get(value, key) ==
  IF value.kind = "object" /\ \E k \in DOMAIN value.members : value.members[k].key = key
  THEN value.members[CHOOSE k \in DOMAIN value.members : value.members[k].key = key].val
  ELSE Undefined

\* a property read on null or undefined throws a TypeError
readThrows(value) == value.kind \in {"null", "undefined"}

isArray(value) == value.kind = "array"

\* JavaScript truthiness
truthy(value) ==
  CASE value.kind \in {"object", "array", "true"} -> TRUE
    [] value.kind = "string" -> value.text # <<>>
    [] value.kind = "number" -> \E k \in DOMAIN value.text : value.text[k] \in Digits \ {"0"}
    [] OTHER -> FALSE

\* ---------------------------------------------------------------- JSON.parse
\* The grammar of JSON.parse without \u escapes and exponents, which the
\* texts below do not use.  A parse step yields [ok, pos, val]: the value and
\* the index after it, or the index of the character that cannot be accepted
\* (Len(s) + 1 when the text ends too early).
Parsed(pos, val) == [ok |-> TRUE, pos |-> pos, val |-> val]

Rejected(pos) == [ok |-> FALSE, pos |-> pos, val |-> Undefined]

\* the characters an escape sequence \c stands for
Unescaped(c) ==
  CASE c = "n" -> "\n"
    [] c = "t" -> "\t"
    [] c = "r" -> "\r"
    [] c = "b" -> "<backspace>"
    [] c = "f" -> "<formfeed>"
    [] OTHER -> c

EscapeChars == {Quote, Backslash, "/", "n", "t", "r", "b", "f"}

ControlChars == {"\n", "\t", "\r", "<backspace>", "<formfeed>"}

\* the backslash at index k of a string literal that starts at index from
\* begins an escape sequence: an even number of backslashes runs up to it
escapeStartsAt(s, from, k) ==
  /\ k >= from
  /\ k <= Len(s)
  /\ s[k] = Backslash
  /\ LET before == skipBack(s, k - 1, {Backslash})
     IN  (k - 1 - (IF before < from THEN from - 1 ELSE before)) % 2 = 0

\* index of the first quote at or after i that is not escaped, 0 if none
RECURSIVE closingQuote(_, _, _)
closingQuote(s, from, i) ==
  LET at == indexOf(s, Quote, i)
  IN  IF at = 0 \/ ~escapeStartsAt(s, from, at - 1) THEN at
      ELSE closingQuote(s, from, at + 1)

\* the characters the literal's indices a..b stand for
RECURSIVE unescape(_, _, _, _)
unescape(s, from, a, b) ==
  IF a > b THEN <<>>
  ELSE IF a = b
  THEN IF escapeStartsAt(s, from, a) THEN <<>>
       ELSE IF escapeStartsAt(s, from, a - 1) THEN <<Unescaped(s[a])>>
       ELSE <<s[a]>>
  ELSE unescape(s, from, a, (a + b) \div 2) \o unescape(s, from, (a + b) \div 2 + 1, b)

\* the rest of a string literal whose opening quote has been read: it runs
\* to the first quote that is not escaped; a control character or an unknown
\* escape sequence before that is rejected
ParseString(s, from) ==
  LET closing == closingQuote(s, from, from)
      end == IF closing = 0 THEN Len(s) + 1 ELSE closing
      bad == {k \in from..(end - 1) :
                \/ s[k] \in ControlChars
                \/ escapeStartsAt(s, from, k - 1) /\ s[k] \notin EscapeChars}
  IN  IF bad # {} THEN Rejected(Min(bad))
      ELSE IF end > Len(s) THEN Rejected(end)
      ELSE Parsed(end + 1, JString(unescape(s, from, from, end - 1)))

\* the digits of a number as Number keeps them: 2500.00 is 2500, 1.50 is 1.5
RECURSIVE dropZeros(_)
dropZeros(frac) ==
  IF frac # <<>> /\ frac[Len(frac)] = "0"
  THEN dropZeros(SubSeq(frac, 1, Len(frac) - 1))
  ELSE frac

\* -?(0|[1-9][0-9]*)(.[0-9]+)?
ParseNumber(s, i) ==
  LET first == IF s[i] = "-" THEN i + 1 ELSE i
      intEnd == IF first <= Len(s) /\ s[first] = "0"
                THEN first + 1
                ELSE skipWhile(s, first, Digits)
      hasFrac == intEnd <= Len(s) /\ s[intEnd] = "."
      fracEnd == skipWhile(s, intEnd + 1, Digits)
      frac == dropZeros(SubSeq(s, intEnd + 1, fracEnd - 1))
      int == SubSeq(s, i, intEnd - 1)
  IN  IF intEnd = first THEN Rejected(first)
      ELSE IF ~hasFrac THEN Parsed(intEnd, JNumber(int))
      ELSE IF fracEnd = intEnd + 1 THEN Rejected(fracEnd)
      ELSE Parsed(fracEnd, JNumber(IF frac = <<>> THEN int ELSE int \o <<".">> \o frac))

\* one of the words true, false, null
ParseLiteral(s, i, word, val) ==
  LET same == {k \in 0..Len(word) :
                 \A m \in 1..k : i + m - 1 <= Len(s) /\ s[i + m - 1] = word[m]}
      n == CHOOSE k \in same : \A m \in same : m <= k
  IN  IF n = Len(word) THEN Parsed(i + n, val) ELSE Rejected(i + n)

RECURSIVE ParseValue(_, _)
RECURSIVE ParseMembers(_, _, _)
RECURSIVE ParseElements(_, _, _)

\* the value that starts at index i (whitespace already skipped)
ParseValue(s, i) ==
  IF i > Len(s) THEN Rejected(i)
  ELSE CASE s[i] = Quote -> ParseString(s, i + 1)
         [] s[i] = "{" ->
              LET j == skipWhile(s, i + 1, WS)
              IN  IF j <= Len(s) /\ s[j] = "}"
                  THEN Parsed(j + 1, JObject(<<>>))
                  ELSE ParseMembers(s, j, <<>>)
         [] s[i] = "[" ->
              LET j == skipWhile(s, i + 1, WS)
              IN  IF j <= Len(s) /\ s[j] = "]"
                  THEN Parsed(j + 1, JArray(<<>>))
                  ELSE ParseElements(s, j, <<>>)
         [] s[i] = "-" \/ s[i] \in Digits -> ParseNumber(s, i)
         [] s[i] = "t" -> ParseLiteral(s, i, <<"t","r","u","e">>, JTrue)
         [] s[i] = "f" -> ParseLiteral(s, i, <<"f","a","l","s","e">>, JFalse)
         [] s[i] = "n" -> ParseLiteral(s, i, <<"n","u","l","l">>, JNull)
         [] OTHER -> Rejected(i)

\* the properties of an object from index i on, up to its closing brace
ParseMembers(s, i, acc) ==
  IF i > Len(s) \/ s[i] # Quote THEN Rejected(i)
  ELSE LET key == ParseString(s, i + 1)
           colonAt == skipWhile(s, key.pos, WS)
           val == ParseValue(s, skipWhile(s, colonAt + 1, WS))
           next == skipWhile(s, val.pos, WS)
       IN  IF ~key.ok THEN key
           ELSE IF colonAt > Len(s) \/ s[colonAt] # ":" THEN Rejected(colonAt)
           ELSE IF ~val.ok THEN val
           ELSE IF next > Len(s) THEN Rejected(next)
           ELSE IF s[next] = ","
           THEN ParseMembers(s, skipWhile(s, next + 1, WS), put(acc, key.val.text, val.val))
           ELSE IF s[next] = "}"
           THEN Parsed(next + 1, JObject(put(acc, key.val.text, val.val)))
           ELSE Rejected(next)

\* the elements of an array from index i on, up to its closing bracket
ParseElements(s, i, acc) ==
  LET val == ParseValue(s, i)
      next == skipWhile(s, val.pos, WS)
  IN  IF ~val.ok THEN val
      ELSE IF next > Len(s) THEN Rejected(next)
      ELSE IF s[next] = ","
      THEN ParseElements(s, skipWhile(s, next + 1, WS), Append(acc, Member(<<>>, val.val)))
      ELSE IF s[next] = "]"
      THEN Parsed(next + 1, JArray(Append(acc, Member(<<>>, val.val))))
      ELSE Rejected(next)

\* JSON.parse(text): the whole text must be one value
JSONparse(s) ==
  LET r == ParseValue(s, skipWhile(s, 1, WS))
      rest == skipWhile(s, r.pos, WS)
  IN  IF r.ok /\ rest <= Len(s) THEN Rejected(rest) ELSE r

\* ---------------------------------------------------------------- JSON.stringify
\* the escape sequence JSON.stringify writes for a character of a string
Escaped(c) ==
  CASE c = Quote -> <<Backslash, Quote>>
    [] c = Backslash -> <<Backslash, Backslash>>
    [] c = "\n" -> <<Backslash, "n">>
    [] c = "\t" -> <<Backslash, "t">>
    [] c = "\r" -> <<Backslash, "r">>
    [] c = "<backspace>" -> <<Backslash, "b">>
    [] c = "<formfeed>" -> <<Backslash, "f">>
    [] OTHER -> <<c>>

\* the characters a..b of a string as JSON.stringify writes them
RECURSIVE escape(_, _, _)
escape(text, a, b) ==
  IF a > b THEN <<>>
  ELSE IF a = b THEN Escaped(text[a])
  ELSE escape(text, a, (a + b) \div 2) \o escape(text, (a + b) \div 2 + 1, b)

quoted(text) == <<Quote>> \o escape(text, 1, Len(text)) \o <<Quote>>

RECURSIVE stringify(_)
RECURSIVE stringifyMembers(_, _, _, _)

\* JSON.stringify(value); an undefined array element is written as null
stringify(value) ==
  CASE value.kind = "string" -> quoted(value.text)
    [] value.kind = "number" ->
         IF value.text = <<"-", "0">> THEN <<"0">> ELSE value.text
    [] value.kind = "true" -> <<"t","r","u","e">>
    [] value.kind = "false" -> <<"f","a","l","s","e">>
    [] value.kind = "array" ->
         <<"[">> \o stringifyMembers(value.members, 1, FALSE, TRUE) \o <<"]">>
    [] value.kind = "object" ->
         <<"{">> \o stringifyMembers(value.members, 1, TRUE, TRUE) \o <<"}">>
    [] OTHER -> <<"n","u","l","l">>

\* the members from index i on, comma-separated; a property whose value is
\* undefined is left out of an object
stringifyMembers(members, i, keyed, first) ==
  IF i > Len(members) THEN <<>>
  ELSE IF keyed /\ members[i].val.kind = "undefined"
  THEN stringifyMembers(members, i + 1, keyed, first)
  ELSE (IF first THEN <<>> ELSE <<",">>)
         \o (IF keyed THEN quoted(members[i].key) \o <<":">> ELSE <<>>)
         \o stringify(members[i].val)
         \o stringifyMembers(members, i + 1, keyed, FALSE)

\* ---------------------------------------------------------------- messages
\* SyntaxError message of JSON.parse when the text ends too early
UnexpectedEndMessage ==
  <<"U","n","e","x","p","e","c","t","e","d"," ","e","n","d"," ","o","f"," ",
    "J","S","O","N"," ","i","n","p","u","t">>

UnexpectedTokenPrefix ==
  <<"U","n","e","x","p","e","c","t","e","d"," ","t","o","k","e","n"," ">>

InJsonAtPosition ==
  <<" ","i","n"," ","J","S","O","N"," ","a","t"," ","p","o","s","i","t","i",
    "o","n"," ">>

IsNotValidJson ==
  <<" ","i","s"," ","n","o","t"," ","v","a","l","i","d"," ","J","S","O",
    "N">>

Ellipsis ==
  <<".",".",".">>

NoJsonObjectFound ==
  <<"N","o"," ","J","S","O","N"," ","o","b","j","e","c","t"," ","f","o","u",
    "n","d"," ","i","n"," ","r","e","s","p","o","n","s","e">>

FailedAfterAttemptsPrefix ==
  <<"F","a","i","l","e","d"," ","t","o"," ","p","a","r","s","e"," ","J","S",
    "O","N"," ","r","e","s","p","o","n","s","e"," ","a","f","t","e","r"," ",
    "m","u","l","t","i","p","l","e"," ","a","t","t","e","m","p","t","s",":",
    " ">>

FailedAfterAttemptsMiddle ==
  <<"."," ","T","h","e"," ","A","I"," ","r","e","s","p","o","n","s","e"," ",
    "m","a","y"," ","c","o","n","t","a","i","n"," ","u","n","e","s","c","a",
    "p","e","d"," ","q","u","o","t","e","s"," ","o","r"," ","i","n","v","a",
    "l","i","d"," ","J","S","O","N","."," ","R","e","s","p","o","n","s","e",
    " ","p","r","e","v","i","e","w",":"," ">>

FailedToProcessPrefix ==
  <<"F","a","i","l","e","d"," ","t","o"," ","p","r","o","c","e","s","s"," ",
    "d","o","c","u","m","e","n","t",":"," ">>

RateLimitReached ==
  <<"A","P","I"," ","r","a","t","e"," ","l","i","m","i","t"," ","r","e","a",
    "c","h","e","d","."," ","P","l","e","a","s","e"," ","w","a","i","t"," ",
    "a"," ","m","o","m","e","n","t"," ","a","n","d"," ","t","r","y"," ","a",
    "g","a","i","n",".">>

UnableToParse ==
  <<"U","n","a","b","l","e"," ","t","o"," ","p","a","r","s","e"," ","t","h",
    "e"," ","A","I"," ","r","e","s","p","o","n","s","e","."," ","P","l","e",
    "a","s","e"," ","t","r","y"," ","a","g","a","i","n"," ","o","r"," ","u",
    "s","e"," ","t","h","e"," ","t","e","x","t"," ","i","n","p","u","t"," ",
    "m","e","t","h","o","d",".">>

ErrorPrefix ==
  <<"E","r","r","o","r",":"," ">>

TextRequired ==
  <<"T","e","x","t"," ","c","o","n","t","e","n","t"," ","i","s"," ","r","e",
    "q","u","i","r","e","d">>

InvalidServerResponse ==
  <<"S","e","r","v","e","r"," ","r","e","t","u","r","n","e","d"," ","a","n",
    " ","i","n","v","a","l","i","d"," ","r","e","s","p","o","n","s","e",".",
    " ","P","l","e","a","s","e"," ","t","r","y"," ","a","g","a","i","n",
    ".">>

FailedToParseDocument ==
  <<"F","a","i","l","e","d"," ","t","o"," ","p","a","r","s","e"," ","i","n",
    "s","u","r","a","n","c","e"," ","d","o","c","u","m","e","n","t">>

InvalidDataFormat ==
  <<"I","n","v","a","l","i","d"," ","d","a","t","a"," ","f","o","r","m","a",
    "t"," ","r","e","c","e","i","v","e","d","."," ","P","l","e","a","s","e",
    " ","t","r","y"," ","a","g","a","i","n",".">>

NoTextExtracted ==
  <<"N","o"," ","t","e","x","t"," ","c","o","u","l","d"," ","b","e"," ","e",
    "x","t","r","a","c","t","e","d">>

FailedToExtract ==
  <<"F","a","i","l","e","d"," ","t","o"," ","e","x","t","r","a","c","t"," ",
    "t","e","x","t">>

\* jsonString.substring(0, 500) of the response preview
PreviewLength == 500

\* the decimal digits of a natural number
RECURSIVE decimal(_)
decimal(n) ==
  IF n < 10 THEN <<DigitChars[n + 1]>>
  ELSE decimal(n \div 10) \o <<DigitChars[(n % 10) + 1]>>

\* The messages a SyntaxError of JSON.parse can carry when the text s is
\* rejected at index pos.  A text that ends too early is reported in the same
\* words by every engine version; for a character that cannot be accepted the
\* wording depends on the version: "Unexpected token c in JSON at position n"
\* or "Unexpected token 'c', "..." is not valid JSON" with the text around
\* the character.
parseErrorMessages(s, pos) ==
  IF pos > Len(s) THEN {UnexpectedEndMessage}
  ELSE LET from == IF Len(s) <= 20 \/ pos <= 11 THEN 1 ELSE pos - 10
           to == IF Len(s) <= 20 \/ pos + 9 >= Len(s) THEN Len(s) ELSE pos + 9
           around == (IF from > 1 THEN Ellipsis ELSE <<>>)
                       \o <<Quote>> \o SubSeq(s, from, to) \o <<Quote>>
                       \o (IF to < Len(s) THEN Ellipsis ELSE <<>>)
       IN  {UnexpectedTokenPrefix \o <<s[pos]>> \o InJsonAtPosition \o decimal(pos - 1),
            UnexpectedTokenPrefix \o <<"'", s[pos], "'", ",", " ">> \o around
              \o IsNotValidJson}

\* ---------------------------------------------------------------- model outputs
\* The texts the language model is taken to answer with: a claim record of one
\* trade with one line item, written as the prompt asks or with the
\* deviations the routes deal with, and wrapped in a markdown fence, in prose
\* or in white space.
\* descriptions of the extracted line item: plain, with an escaped quote,
\* with a bare (unescaped) quote
PlainDescription ==
  <<"V","e","n","t">>

EscapedQuoteDescription ==
  <<"6",Backslash,Quote," ","p","i","p","e">>

BareQuoteDescription ==
  <<"6",Quote," ","p","i","p","e">>

ItemHead ==
  <<"{",Quote,"i","d",Quote,":",Quote,"i","1",Quote,",",Quote,"d","e","s",
    "c","r","i","p","t","i","o","n",Quote,":",Quote>>

ItemTail ==
  <<Quote,",",Quote,"r","c","v",Quote,":","1","0","0",",",Quote,"c","h","e",
    "c","k","e","d",Quote,":","f","a","l","s","e","}">>

TradeHead ==
  <<"{",Quote,"i","d",Quote,":",Quote,"t","1",Quote,",",Quote,"n","a","m",
    "e",Quote,":",Quote,"R","o","o","f",Quote>>

CheckedField ==
  <<",",Quote,"c","h","e","c","k","e","d",Quote,":","f","a","l","s","e">>

SupplementsField ==
  <<",",Quote,"s","u","p","p","l","e","m","e","n","t","s",Quote,":","[",
    "]">>

LineItemsHead ==
  <<",",Quote,"l","i","n","e","I","t","e","m","s",Quote,":","[">>

RecordHead ==
  <<"{",Quote,"d","e","d","u","c","t","i","b","l","e",Quote,":","5","0",",",
    Quote,"c","l","a","i","m","N","u","m","b","e","r",Quote,":",Quote,"C",
    "1",Quote>>

TradesHead ==
  <<",",Quote,"t","r","a","d","e","s",Quote,":","[">>

TradesNotArray ==
  <<",",Quote,"t","r","a","d","e","s",Quote,":",Quote,"n","o","n","e",
    Quote>>

\* a response cut off by the output limit, and prose instead of a record
TruncatedText ==
  <<"{",Quote,"t","r","a","d","e","s",Quote,":","[">>

ProseText ==
  <<"S","o","r","r","y",","," ","p","a","g","e"," ","4","2","9"," ","i","s",
    " ","b","l","a","n","k">>

ProseBefore ==
  <<"H","e","r","e"," ","i","s"," ","t","h","e"," ","s","c","o","p","e",":",
    " ">>

ProseAfter ==
  <<" ","D","o","n","e",".">>

\* messages of the errors the model call throws: rate limited, not connected
RateLimitError ==
  <<"4","2","9"," ","r","a","t","e","_","l","i","m","i","t","_","e","r","r",
    "o","r">>

ConnectionError ==
  <<"C","o","n","n","e","c","t","i","o","n"," ","e","r","r","o","r",".">>

\* property names the pages read
Key_trades ==
  <<"t","r","a","d","e","s">>

Key_deductible ==
  <<"d","e","d","u","c","t","i","b","l","e">>

Key_claimNumber ==
  <<"c","l","a","i","m","N","u","m","b","e","r">>

Key_claimAdjuster ==
  <<"c","l","a","i","m","A","d","j","u","s","t","e","r">>

Key_name ==
  <<"n","a","m","e">>

Key_email ==
  <<"e","m","a","i","l">>

Key_error ==
  <<"e","r","r","o","r">>

Key_lineItems ==
  <<"l","i","n","e","I","t","e","m","s">>

Key_supplements ==
  <<"s","u","p","p","l","e","m","e","n","t","s">>

Key_checked ==
  <<"c","h","e","c","k","e","d">>

Key_description ==
  <<"d","e","s","c","r","i","p","t","i","o","n">>

\* property names of the record the review and summary pages exchange
Key_rep ==
  <<"r","e","p">>

Key_customer ==
  <<"c","u","s","t","o","m","e","r">>

Key_workNotDoing ==
  <<"w","o","r","k","N","o","t","D","o","i","n","g">>

Key_signature ==
  <<"s","i","g","n","a","t","u","r","e">>

Key_displayName ==
  <<"d","i","s","p","l","a","y","N","a","m","e">>

Key_address ==
  <<"a","d","d","r","e","s","s">>

Key_jnid ==
  <<"j","n","i","d">>

\* useState('Colin Black'): the representative selected on the upload page
ColinBlack ==
  <<"C","o","l","i","n"," ","B","l","a","c","k">>

\* texts of the lines of the work-not-doing text
EntireTrade ==
  <<" ","(","e","n","t","i","r","e"," ","t","r","a","d","e",")">>

ColonSpace ==
  <<":"," ">>

\* property names of the signature the scope-builder review page stores
Key_contractorName ==
  <<"c","o","n","t","r","a","c","t","o","r","N","a","m","e">>

Key_homeownerName ==
  <<"h","o","m","e","o","w","n","e","r","N","a","m","e">>

Key_homeownerEmail ==
  <<"h","o","m","e","o","w","n","e","r","E","m","a","i","l">>

Key_signatureDate ==
  <<"s","i","g","n","a","t","u","r","e","D","a","t","e">>

\* new Date().toISOString().split('T')[0] on the day the page is opened
SignatureDate ==
  <<"2","0","2","6","-","0","1","-","0","1">>

\* canvas.toDataURL('image/png') of the signature pad
SignatureImage ==
  <<"d","a","t","a",":","i","m","a","g","e","/","p","n","g",";","b","a","s",
    "e","6","4",",","A","A">>

Descriptions == {PlainDescription, EscapedQuoteDescription, BareQuoteDescription}

\* what the model left out of the trade
TradeShapes == {"full", "noSupplements", "noChecked"}

\* what the record holds under trades
Tops == {"record", "noTrades", "tradesNotArray", "emptyTrades"}

ItemText(description) == ItemHead \o description \o ItemTail

TradeText(shape, description) ==
  TradeHead
    \o (IF shape = "noChecked" THEN <<>> ELSE CheckedField)
    \o (IF shape = "noSupplements" THEN <<>> ELSE SupplementsField)
    \o LineItemsHead \o ItemText(description) \o <<"]", "}">>

\* the record; trailingComma puts a comma before its closing brace
RecordText(top, shape, description, trailingComma) ==
  RecordHead
    \o (CASE top = "record" -> TradesHead \o TradeText(shape, description) \o <<"]">>
          [] top = "emptyTrades" -> TradesHead \o <<"]">>
          [] top = "tradesNotArray" -> TradesNotArray
          [] OTHER -> <<>>)
    \o (IF trailingComma THEN <<",">> ELSE <<>>)
    \o <<"}">>

RecordTexts ==
  {RecordText("record", shape, description, comma) :
     shape \in TradeShapes, description \in Descriptions, comma \in BOOLEAN}
  \cup {RecordText(top, "full", PlainDescription, comma) :
          top \in Tops \ {"record"}, comma \in BOOLEAN}

\* language tags after the opening fence marker: none, letters, letters in
\* capitals, a tag with a digit, a tag with punctuation
FenceTags == {<<>>, <<"j","s","o","n">>, <<"J","S","O","N">>,
              <<"j","s","o","n","5">>, <<"x","-","j","s","o","n">>}

Fenced(tag, body) == Fence \o tag \o <<"\n">> \o body \o <<"\n">> \o Fence

Wrappings(body) ==
  {body,
   <<"\n", " ">> \o body \o <<" ", "\n">>,
   ProseBefore \o body \o ProseAfter}
  \cup {Fenced(tag, body) : tag \in FenceTags}
  \cup {Fenced(<<"j","s","o","n">>, body) \o <<" ", "\n">>}

\* texts with a run of commas before a closer
CommaTexts ==
  {<<"[", "1", ",", "]">>,
   <<"[", "1", ",", ",", "]">>,
   <<"[", "1", ",", " ", ",", "]">>,
   <<"{", "}", ",", ",", "}">>}

\* valid texts with a comma and a closer inside a string: {"note":"a,}"} and
\* ["x, ]"]
CommaInStringTexts ==
  {<<"{", Quote, "n", "o", "t", "e", Quote, ":", Quote, "a", ",", "}", Quote, "}">>,
   <<"[", Quote, "x", ",", " ", "]", Quote, "]">>}

ModelTexts ==
  UNION {Wrappings(body) : body \in RecordTexts}
    \cup {<<>>, TruncatedText, ProseText}
    \cup CommaTexts
    \cup CommaInStringTexts

\* what the call of the language model comes back with: its text, or an error
ModelOutcomes ==
  {[kind |-> "text", text |-> t] : t \in ModelTexts}
    \cup {[kind |-> "error", text |-> m] : m \in {RateLimitError, ConnectionError}}

\* ---------------------------------------------------------------- state machine
RECURSIVE SeqSum(_, _)
SeqSum(f, n) == IF n = 0 THEN 0 ELSE SeqSum(f, n - 1) + f[n]

Size(ts) ==
  Len(ts) + SeqSum([j \in DOMAIN ts |-> Len(ts[j].lineItems) + Len(ts[j].supplements)],
                   Len(ts))

\* ---------------------------------------------------------------- extraction requests
\* messages of the early returns and of the TypeError of a read on null
MissingBlobUrl ==
  <<"M","i","s","s","i","n","g"," ","b","l","o","b"," ","U","R","L"," ","o",
    "r"," ","f","i","l","e"," ","n","a","m","e">>

EnterDocumentText ==
  <<"P","l","e","a","s","e"," ","e","n","t","e","r"," ","i","n","s","u","r",
    "a","n","c","e"," ","d","o","c","u","m","e","n","t"," ","t","e","x",
    "t">>

CannotReadNull ==
  <<"C","a","n","n","o","t"," ","r","e","a","d"," ","p","r","o","p","e","r",
    "t","i","e","s"," ","o","f"," ","n","u","l","l"," ","(","r","e","a","d",
    "i","n","g"," ","'","t","r","a","d","e","s","'",")">>

\* what the reviewer submits: nothing, or a document
DocumentText ==
  <<"s","c","o","p","e">>

Submissions == {<<>>, DocumentText}

NoResult == [kind |-> "none", text |-> <<>>]

NoResponse == [status |-> 0, body |-> <<>>]

\* NextResponse.json(value, { status })
Json(status, value) == [status |-> status, body |-> stringify(value)]

ErrorJson(status, message) ==
  Json(status, JObject(<<Member(Key_error, JString(message))>>))

\* no request is in flight
NoRequest ==
  /\ pc = "idle"
  /\ route = "none"
  /\ result = NoResult
  /\ jsonString = <<>>
  /\ parsedResult = Undefined
  /\ lastError = <<>>
  /\ response = NoResponse

\* process-document POST up to the cleaned text.  The route has no caller in
\* the repository; the API key and the blob store are taken to be there.
processDocumentPOST(fileName, outcome) ==
  /\ pc = "idle"
  /\ route' = "process-document"
  /\ IF fileName = <<>>
     THEN /\ response' = ErrorJson(400, MissingBlobUrl)
          /\ pc' = "responded"
          /\ UNCHANGED <<result, jsonString, lastError>>
     ELSE /\ result' = outcome
          /\ IF outcome.kind = "error"
             THEN /\ lastError' = outcome.text
                  /\ pc' = "catch"
                  /\ UNCHANGED jsonString
             ELSE /\ jsonString' = cleanText(outcome.text)
                  /\ pc' = "attempt1"
                  /\ UNCHANGED lastError
          /\ UNCHANGED response
  /\ UNCHANGED <<parsedResult, scopeData, error, loading, renderError>>
  /\ UNCHANGED vars
  /\ UNCHANGED yvars

\* Attempt 1: JSON.parse(repairJSON(jsonString))
attempt1 ==
  /\ pc = "attempt1"
  /\ \E cleaned \in {repairJSON(jsonString)} :
       \E parsed \in {JSONparse(cleaned)} :
         IF parsed.ok
         THEN /\ parsedResult' = parsed.val
              /\ pc' = "return"
              /\ UNCHANGED lastError
         ELSE /\ \E message \in parseErrorMessages(cleaned, parsed.pos) :
                   lastError' = message
              /\ pc' = "attempt2"
              /\ UNCHANGED parsedResult
  /\ UNCHANGED <<route, result, jsonString, response, scopeData, error, loading,
                 renderError>>
  /\ UNCHANGED vars
  /\ UNCHANGED yvars

\* a match that ends at the first } after the first {
jsonMatchToFirstClose(s) ==
  LET open == indexOf(s, "{", 1)
      close == indexOf(s, "}", open + 1)
  IN  IF open = 0 \/ close = 0 THEN <<>> ELSE SubSeq(s, open, close)

\* jsonString.match(/\{[\s\S]*\}/): from the first { through the last } after
\* it; <<>> when there is no match
jsonMatch(s) ==
  LET open == indexOf(s, "{", 1)
      closes == {k \in (open + 1)..Len(s) : s[k] = "}"}
  IN  IF open = 0 \/ closes = {} THEN <<>>
      ELSE SubSeq(s, open, CHOOSE k \in closes : \A m \in closes : m <= k)

\* the error thrown when both attempts have failed
failedAfterAttempts(message, text) ==
  FailedAfterAttemptsPrefix \o message \o FailedAfterAttemptsMiddle
    \o substring0(text, PreviewLength)

\* Attempt 2, entered from the catch of attempt 1
attempt2 ==
  /\ pc = "attempt2"
  /\ \E matched \in {jsonMatch(jsonString)} :
       \E extracted \in {repairJSON(matched)} :
         \E parsed \in {JSONparse(extracted)} :
           IF matched # <<>> /\ parsed.ok
           THEN /\ parsedResult' = parsed.val
                /\ pc' = "return"
                /\ UNCHANGED lastError
           ELSE /\ \E message \in IF matched # <<>>
                                  THEN parseErrorMessages(extracted, parsed.pos)
                                  ELSE {NoJsonObjectFound} :
                     lastError' = failedAfterAttempts(message, jsonString)
                /\ pc' = "catch"
                /\ UNCHANGED parsedResult
  /\ UNCHANGED <<route, result, jsonString, response, scopeData, error, loading,
                 renderError>>
  /\ UNCHANGED vars
  /\ UNCHANGED yvars

\* return NextResponse.json(parsedResult), of either route
respond ==
  /\ pc = "return"
  /\ response' = Json(200, parsedResult)
  /\ pc' = "responded"
  /\ UNCHANGED <<route, result, jsonString, parsedResult, lastError, scopeData,
                 error, loading, renderError>>
  /\ UNCHANGED vars
  /\ UNCHANGED yvars

\* the outer catch of process-document
processDocumentCatch ==
  /\ pc = "catch"
  /\ route = "process-document"
  /\ response' = ErrorJson(500, FailedToProcessPrefix \o lastError)
  /\ pc' = "responded"
  /\ UNCHANGED <<route, result, jsonString, parsedResult, lastError, scopeData,
                 error, loading, renderError>>
  /\ UNCHANGED vars
  /\ UNCHANGED yvars

Init ==
  /\ stage = "upload"
  /\ trades = <<>>
  /\ deductible = 0
  /\ totals = EmptyTotals
  /\ workNotDoing = ""
  /\ NoRequest
  /\ scopeData = <<>>
  /\ error = <<>>
  /\ loading = TRUE
  /\ renderError = FALSE
  /\ claimNumber = JString(<<>>)
  /\ claimAdjuster = JObject(<<Member(Key_name, JString(<<>>)),
                               Member(Key_email, JString(<<>>))>>)
  /\ rep = JString(<<>>)
  /\ customer = JNull
  /\ sendingToJobNimbus = FALSE
  /\ sendingError = <<>>
  /\ customerSearch = <<>>
  /\ searchResults = <<>>
  /\ showSearchResults = FALSE
  /\ searching = FALSE
  /\ searchTimeoutRef = 0
  /\ selectedCustomer = JNull
  /\ timers = {}
  /\ fetches = {}
  /\ pathname = <<>>

\* upload page handleParse stores the extracted record and the review page's
\* effect loads it: setTrades(parsed.trades), setDeductible(parsed.deductible || 0);
\* amounts are non-negative as extracted
handleParse ==
  /\ stage = "upload"
  /\ \E n \in 1..MaxSize, dup \in BOOLEAN, d \in {v \in DeductibleVals : v >= 0} :
       \E m \in [1..n -> 0..(MaxSize - n)] :
         /\ n + SeqSum(m, n) <= MaxSize
         /\ trades' = [j \in 1..n |-> ExtractedTrade(j, m[j], dup /\ j = n /\ n > 1)]
         /\ deductible' = d
  /\ stage' = "review"
  /\ totals' = calculateTotals(trades')
  /\ workNotDoing' = ""
  /\ UNCHANGED <<xvars, yvars>>

toggleTrade(tradeId) ==
  /\ stage = "review"
  /\ trades' = [j \in DOMAIN trades |->
       IF trades[j].id = tradeId
       THEN LET newChecked == ~trades[j].checked
            IN [trades[j] EXCEPT
                  !.checked = newChecked,
                  !.lineItems = [k \in DOMAIN @ |-> [@[k] EXCEPT !.checked = newChecked]]]
       ELSE trades[j]]
  /\ totals' = calculateTotals(trades')
  /\ UNCHANGED <<stage, deductible, workNotDoing>>
  /\ UNCHANGED <<xvars, yvars>>

\* toggleLineItem's updater as it would be if it matched the item id alone
toggleLineItemMapAnyTrade(prevTrades, tradeId, itemId) ==
  [j \in DOMAIN prevTrades |->
     LET trade == prevTrades[j]
         updatedLineItems ==
           [k \in DOMAIN trade.lineItems |->
              IF trade.lineItems[k].id = itemId
              THEN [trade.lineItems[k] EXCEPT !.checked = ~@]
              ELSE trade.lineItems[k]]
         allChecked == \A k \in DOMAIN updatedLineItems : updatedLineItems[k].checked
         noneChecked == \A k \in DOMAIN updatedLineItems : ~updatedLineItems[k].checked
     IN [trade EXCEPT !.lineItems = updatedLineItems,
                      !.checked = allChecked \/ (~noneChecked /\ trade.checked)]]

\* toggleLineItem's updater as it would be if it left the trade's flag alone
toggleLineItemMapFlagKept(prevTrades, tradeId, itemId) ==
  [j \in DOMAIN prevTrades |->
     LET trade == prevTrades[j] IN
     IF trade.id = tradeId
     THEN [trade EXCEPT !.lineItems =
             [k \in DOMAIN trade.lineItems |->
                IF trade.lineItems[k].id = itemId
                THEN [trade.lineItems[k] EXCEPT !.checked = ~@]
                ELSE trade.lineItems[k]]]
     ELSE trade]

\* the updater of toggleLineItem: prevTrades.map(...)
toggleLineItemMap(prevTrades, tradeId, itemId) ==
  [j \in DOMAIN prevTrades |->
     LET trade == prevTrades[j] IN
     IF trade.id = tradeId
     THEN LET updatedLineItems ==
                [k \in DOMAIN trade.lineItems |->
                   IF trade.lineItems[k].id = itemId
                   THEN [trade.lineItems[k] EXCEPT !.checked = ~@]
                   ELSE trade.lineItems[k]]
              allChecked == \A k \in DOMAIN updatedLineItems : updatedLineItems[k].checked
              noneChecked == \A k \in DOMAIN updatedLineItems : ~updatedLineItems[k].checked
          IN [trade EXCEPT !.lineItems = updatedLineItems,
                           !.checked = allChecked \/ (~noneChecked /\ trade.checked)]
     ELSE trade]

toggleLineItem(tradeId, itemId) ==
  /\ stage = "review"
  /\ trades' = toggleLineItemMap(trades, tradeId, itemId)
  /\ totals' = calculateTotals(trades')
  /\ UNCHANGED <<stage, deductible, workNotDoing>>
  /\ UNCHANGED <<xvars, yvars>>

addSupplement(tradeId, now) ==
  /\ stage = "review"
  /\ Size(trades) < MaxSize
  /\ trades' = [j \in DOMAIN trades |->
       IF trades[j].id = tradeId
       THEN [trades[j] EXCEPT !.supplements = Append(@, [id |-> now, amount |-> 0])]
       ELSE trades[j]]
  /\ totals' = calculateTotals(trades')
  /\ UNCHANGED <<stage, deductible, workNotDoing>>
  /\ UNCHANGED <<xvars, yvars>>

\* updateSupplement(tradeId, suppId, 'amount', parseFloat(value) || 0)
updateSupplement(tradeId, suppId, value) ==
  /\ stage = "review"
  /\ trades' = [j \in DOMAIN trades |->
       IF trades[j].id = tradeId
       THEN [trades[j] EXCEPT !.supplements =
               [i \in DOMAIN @ |-> IF @[i].id = suppId
                                   THEN [@[i] EXCEPT !.amount = value]
                                   ELSE @[i]]]
       ELSE trades[j]]
  /\ totals' = calculateTotals(trades')
  /\ UNCHANGED <<stage, deductible, workNotDoing>>
  /\ UNCHANGED <<xvars, yvars>>

removeSupplement(tradeId, suppId) ==
  /\ stage = "review"
  /\ trades' = [j \in DOMAIN trades |->
       IF trades[j].id = tradeId
       THEN [trades[j] EXCEPT !.supplements =
               SelectSeq(@, LAMBDA supp : supp.id # suppId)]
       ELSE trades[j]]
  /\ totals' = calculateTotals(trades')
  /\ UNCHANGED <<stage, deductible, workNotDoing>>
  /\ UNCHANGED <<xvars, yvars>>

\* onChange of the deductible input: setDeductible(parseFloat(value) || 0)
setDeductible(value) ==
  /\ stage = "review"
  /\ deductible' = value
  /\ totals' = calculateTotals(trades)
  /\ UNCHANGED <<stage, trades, workNotDoing>>
  /\ UNCHANGED <<xvars, yvars>>

\* stores { trades, deductible, ..., workNotDoing } and opens the summary page,
\* which loads the stored record and renders its own totals
handleProceedToSummary ==
  /\ stage = "review"
  /\ workNotDoing' = calculateWorkNotDoing(trades)
  /\ stage' = "summary"
  /\ totals' = calculateTotals(trades)
  /\ UNCHANGED <<trades, deductible>>
  /\ UNCHANGED <<xvars, yvars>>

\* summary page: sessionStorage.removeItem('scopeData'); router.push('/upload')
handleStartOver ==
  /\ stage = "summary"
  /\ stage' = "upload"
  /\ trades' = <<>>
  /\ deductible' = 0
  /\ totals' = EmptyTotals
  /\ workNotDoing' = ""
  /\ UNCHANGED <<xvars, yvars>>

\* The page renders one control per trade, per line item and per supplement,
\* bound to the ids of that trade, item and supplement.
TradeIds == {trades[j].id : j \in DOMAIN trades}

ItemIds(tradeId) ==
  UNION {{trades[j].lineItems[k].id : k \in DOMAIN trades[j].lineItems} :
           j \in {i \in DOMAIN trades : trades[i].id = tradeId}}

SuppIds(tradeId) ==
  UNION {{trades[j].supplements[k].id : k \in DOMAIN trades[j].supplements} :
           j \in {i \in DOMAIN trades : trades[i].id = tradeId}}

Next ==
  \/ handleParse
  \/ \E tradeId \in TradeIds : toggleTrade(tradeId)
  \/ \E tradeId \in TradeIds : \E itemId \in ItemIds(tradeId) :
       toggleLineItem(tradeId, itemId)
  \/ \E tradeId \in TradeIds, now \in ClockVals : addSupplement(tradeId, now)
  \/ \E tradeId \in TradeIds : \E suppId \in SuppIds(tradeId), value \in AmountVals :
       updateSupplement(tradeId, suppId, value)
  \/ \E tradeId \in TradeIds : \E suppId \in SuppIds(tradeId) :
       removeSupplement(tradeId, suppId)
  \/ \E value \in DeductibleVals : setDeductible(value)
  \/ handleProceedToSummary
  \/ handleStartOver

Spec == Init /\ [][Next]_allvars

TypeOK ==
  /\ stage \in {"upload", "review", "summary"}
  /\ deductible \in DeductibleVals
  /\ Size(trades) <= MaxSize

\* ---------------------------------------------------------------- parse-scope and its pages
\* upload page handleParse, up to the fetch of /api/parse-scope
handleParseFetch(text) ==
  /\ pc \in {"idle", "failed"}
  /\ stage = "upload"
  /\ IF trim(text) = <<>>
     THEN /\ error' = EnterDocumentText
          /\ pc' = "failed"
     ELSE /\ error' = <<>>
          /\ pc' = "fetch"
  /\ route' = "none"
  /\ result' = NoResult
  /\ jsonString' = <<>>
  /\ parsedResult' = Undefined
  /\ lastError' = <<>>
  /\ response' = NoResponse
  /\ UNCHANGED <<scopeData, loading, renderError>>
  /\ UNCHANGED vars
  /\ UNCHANGED yvars

\* lines 199-205 of process-document and 161-169 of parse-scope without the
\* final trim, which parse-scope does in the call of JSON.parse
fencesStripped(text) ==
  LET trimmed == trim(text)
  IN  IF startsWith(trimmed, Fence)
      THEN stripClosingFence(stripOpeningFence(trimmed))
      ELSE trimmed

\* parse-scope POST up to the text with its fences stripped
parseScopePOST(text, outcome) ==
  /\ pc = "fetch"
  /\ route' = "parse-scope"
  /\ IF trim(text) = <<>>
     THEN /\ response' = ErrorJson(400, TextRequired)
          /\ pc' = "responded"
          /\ UNCHANGED <<result, jsonString, lastError>>
     ELSE /\ result' = outcome
          /\ IF outcome.kind = "error"
             THEN /\ lastError' = outcome.text
                  /\ pc' = "catch"
                  /\ UNCHANGED jsonString
             ELSE /\ jsonString' = fencesStripped(outcome.text)
                  /\ pc' = "parse"
                  /\ UNCHANGED lastError
          /\ UNCHANGED response
  /\ UNCHANGED <<parsedResult, scopeData, error, loading, renderError>>
  /\ UNCHANGED vars
  /\ UNCHANGED yvars

\* const parsedResult = JSON.parse(jsonString.trim())
parseScopeParse ==
  /\ pc = "parse"
  /\ \E trimmed \in {trim(jsonString)} :
       \E parsed \in {JSONparse(trimmed)} :
         IF parsed.ok
         THEN /\ parsedResult' = parsed.val
              /\ pc' = "return"
              /\ UNCHANGED lastError
         ELSE /\ \E message \in parseErrorMessages(trimmed, parsed.pos) :
                   lastError' = message
              /\ pc' = "catch"
              /\ UNCHANGED parsedResult
  /\ UNCHANGED <<route, result, jsonString, response, scopeData, error, loading,
                 renderError>>
  /\ UNCHANGED vars
  /\ UNCHANGED yvars

\* the errorMessage the catch of parse-scope picks for an Error's message
errorMessageOf(message) ==
  IF includes(message, <<"4","2","9">>)
       \/ includes(message, <<"r","a","t","e","_","l","i","m","i","t">>)
  THEN RateLimitReached
  ELSE IF includes(message, SubSeq(UnexpectedTokenPrefix, 1, 16))
  THEN UnableToParse
  ELSE IF includes(message, NoTextExtracted) \/ includes(message, FailedToExtract)
  THEN message
  ELSE ErrorPrefix \o message

parseScopeCatch ==
  /\ pc = "catch"
  /\ route = "parse-scope"
  /\ response' = ErrorJson(500, errorMessageOf(lastError))
  /\ pc' = "responded"
  /\ UNCHANGED <<route, result, jsonString, parsedResult, lastError, scopeData,
                 error, loading, renderError>>
  /\ UNCHANGED vars
  /\ UNCHANGED yvars

\* value || fallback
orElse(value, fallback) == IF truthy(value) THEN value ELSE fallback

\* { name: '', email: '' }
NoAdjuster ==
  JObject(<<Member(Key_name, JString(<<>>)), Member(Key_email, JString(<<>>))>>)

\* selectedCustomer ? { displayName, address, jnid } : null
customerOf(selected) ==
  IF truthy(selected)
  THEN JObject(<<Member(Key_displayName, get(selected, Key_displayName)),
                 Member(Key_address, get(selected, Key_address)),
                 Member(Key_jnid, get(selected, Key_jnid))>>)
  ELSE JNull

\* the record handleParse stores under scopeData when selected is the
\* customer picked from the search
storedRecordFor(data, selected) ==
  JObject(<<Member(Key_trades, get(data, Key_trades)),
            Member(Key_deductible, orElse(get(data, Key_deductible), JNumber(<<"0">>))),
            Member(Key_claimNumber, orElse(get(data, Key_claimNumber), JString(<<>>))),
            Member(Key_claimAdjuster, orElse(get(data, Key_claimAdjuster), NoAdjuster)),
            Member(Key_rep, JString(ColinBlack)),
            Member(Key_customer, customerOf(selected))>>)

storedRecord(data) == storedRecordFor(data, selectedCustomer)

\* the record handleParse of the scope-builder upload page stores under
\* scopeData: that page has no representative and no customer
storedRecordScopeBuilder(data) ==
  JObject(<<Member(Key_trades, get(data, Key_trades)),
            Member(Key_deductible, orElse(get(data, Key_deductible), JNumber(<<"0">>))),
            Member(Key_claimNumber, orElse(get(data, Key_claimNumber), JString(<<>>))),
            Member(Key_claimAdjuster, orElse(get(data, Key_claimAdjuster), NoAdjuster))>>)

\* String(value) of a string or another value, as new Error(value) keeps it
messageOf(value) == IF value.kind = "string" THEN value.text ELSE stringify(value)

\* the error handleParse ends with for a response, <<>> if none: the body is
\* not JSON, the status is not ok, trades is missing or is no array
failureOf(status, body) ==
  IF ~body.ok THEN InvalidServerResponse
  ELSE IF readThrows(body.val) THEN CannotReadNull
  ELSE IF status \notin 200..299
  THEN IF truthy(get(body.val, Key_error))
       THEN messageOf(get(body.val, Key_error))
       ELSE FailedToParseDocument
  ELSE IF ~truthy(get(body.val, Key_trades)) \/ ~isArray(get(body.val, Key_trades))
  THEN InvalidDataFormat
  ELSE <<>>

\* upload page handleParse from the response on: the record is stored and the
\* review page opened, or the error shown.  The two upload pages differ in the
\* record they store.
handleParseResponse ==
  /\ pc = "responded"
  /\ route = "parse-scope"
  /\ \E body \in {JSONparse(response.body)} :
       \E failure \in {failureOf(response.status, body)} :
         IF failure = <<>>
         THEN /\ \E record \in {storedRecord(body.val),
                                storedRecordScopeBuilder(body.val)} :
                   scopeData' = <<stringify(record)>>
              /\ stage' = "review"
              /\ loading' = TRUE
              /\ pc' = "mount"
              /\ UNCHANGED error
         ELSE /\ error' = failure
              /\ pc' = "failed"
              /\ UNCHANGED <<scopeData, stage, loading>>
  /\ UNCHANGED <<route, result, jsonString, parsedResult, lastError, response,
                 renderError>>
  /\ UNCHANGED <<trades, deductible, totals, workNotDoing>>
  /\ UNCHANGED yvars

\* the address /review is opened without going through the upload page
navigateToReview ==
  /\ pc \in {"idle", "failed"}
  /\ stage = "upload"
  /\ stage' = "review"
  /\ loading' = TRUE
  /\ pc' = "mount"
  /\ UNCHANGED <<route, result, jsonString, parsedResult, lastError, response,
                 scopeData, error, renderError>>
  /\ UNCHANGED <<trades, deductible, totals, workNotDoing>>
  /\ UNCHANGED yvars

\* calculateTotals throws a TypeError on these trades: a trade or a line item
\* or a supplement that is null, lineItems without forEach, supplements
\* without reduce
calculateTotalsThrows(ts) ==
  \E j \in DOMAIN ts :
    LET lineItems == get(ts[j], Key_lineItems)
        supplements == get(ts[j], Key_supplements)
    IN  \/ readThrows(ts[j])
        \/ ~isArray(lineItems)
        \/ \E k \in DOMAIN lineItems.members : readThrows(lineItems.members[k].val)
        \/ ~isArray(supplements)
        \/ \E k \in DOMAIN supplements.members : readThrows(supplements.members[k].val)

\* the number a JSON number denotes, in whole dollars
RECURSIVE numberOf(_)
numberOf(digits) ==
  IF digits = <<>> \/ digits[Len(digits)] \notin Digits THEN 0
  ELSE numberOf(SubSeq(digits, 1, Len(digits) - 1)) * 10
         + (CHOOSE d \in 0..9 : DigitChars[d + 1] = digits[Len(digits)])

\* a missing item read as an empty record
storedDataOrEmptyRecord ==
  IF scopeData = <<>> THEN Parsed(0, JObject(<<>>)) ELSE JSONparse(scopeData[1])

\* what JSON.parse makes of the item stored under scopeData
storedData == IF scopeData = <<>> THEN Rejected(0) ELSE JSONparse(scopeData[1])

\* review page useEffect: the stored record is loaded, or the upload page
\* opened; the first render with the loaded trades calls calculateTotals
reviewLoad ==
  /\ pc = "mount"
  /\ \E parsed \in {storedData} :
       \E storedTrades \in {get(parsed.val, Key_trades)} :
         IF ~parsed.ok \/ readThrows(parsed.val)
         THEN /\ stage' = "upload"
              /\ UNCHANGED <<trades, deductible, renderError, claimNumber,
                             claimAdjuster, rep>>
         ELSE IF truthy(storedTrades) /\ isArray(storedTrades)
         THEN /\ trades' = [j \in DOMAIN storedTrades.members |->
                              storedTrades.members[j].val]
              /\ deductible' =
                   numberOf(orElse(get(parsed.val, Key_deductible), JNumber(<<"0">>)).text)
              /\ claimNumber' = orElse(get(parsed.val, Key_claimNumber), JString(<<>>))
              /\ claimAdjuster' = orElse(get(parsed.val, Key_claimAdjuster), NoAdjuster)
              /\ rep' = orElse(get(parsed.val, Key_rep), JString(<<>>))
              /\ renderError' = calculateTotalsThrows(trades')
              /\ UNCHANGED stage
         ELSE UNCHANGED <<stage, trades, deductible, renderError, claimNumber,
                          claimAdjuster, rep>>
  /\ loading' = FALSE
  /\ pc' = "loaded"
  /\ UNCHANGED <<route, result, jsonString, parsedResult, lastError, response,
                 scopeData, error>>
  /\ UNCHANGED <<totals, workNotDoing>>
  /\ UNCHANGED <<customer, svars, qvars, pathname>>

\* calculateWorkNotDoing on the loaded trades: the lines of the unchecked
\* items of a checked trade, from item k on
RECURSIVE uncheckedLinesOf(_, _, _)
uncheckedLinesOf(trade, items, k) ==
  IF k > Len(items) THEN <<>>
  ELSE (IF truthy(get(items[k].val, Key_checked)) THEN <<>>
        ELSE <<messageOf(get(trade, Key_name)) \o ColonSpace
                 \o messageOf(get(items[k].val, Key_description))>>)
         \o uncheckedLinesOf(trade, items, k + 1)

RECURSIVE uncheckedItemsOf(_, _)
uncheckedItemsOf(ts, n) ==
  IF n = 0 THEN <<>>
  ELSE uncheckedItemsOf(ts, n - 1)
         \o (IF ~truthy(get(ts[n], Key_checked))
             THEN <<messageOf(get(ts[n], Key_name)) \o EntireTrade>>
             ELSE uncheckedLinesOf(ts[n], get(ts[n], Key_lineItems).members, 1))

\* uncheckedItems.join('\n')
RECURSIVE joinLines(_, _)
joinLines(lines, n) ==
  IF n = 0 THEN <<>>
  ELSE IF n = 1 THEN lines[1]
  ELSE joinLines(lines, n - 1) \o <<"\n">> \o lines[n]

workNotDoingOf(ts) ==
  LET lines == uncheckedItemsOf(ts, Len(ts)) IN joinLines(lines, Len(lines))

\* the first n values as the elements of an array
RECURSIVE elements(_, _)
elements(values, n) ==
  IF n = 0 THEN <<>>
  ELSE Append(elements(values, n - 1), Member(<<>>, values[n]))

\* the trades state written into a record
tradesValue(ts) == JArray(elements(ts, Len(ts)))

\* the application is the one whose upload page stored the record: only the
\* Rep-Calculator upload page stores a representative, which the review
\* page's loader has read
storedByRepCalculator == truthy(rep)

\* scope-builder review page: the signature pad hands over the image, the
\* record is written and the summary page opened, which is not among the
\* sources; handleConfirmAndSign opens the pad only with both names filled in
handleSignatureSave(contractorName, homeownerName, signatureImage) ==
  /\ pc = "loaded"
  /\ stage = "review"
  /\ ~renderError
  /\ ~storedByRepCalculator
  /\ trim(contractorName) # <<>>
  /\ trim(homeownerName) # <<>>
  /\ \E text \in {workNotDoingOf(trades)} :
       scopeData' =
         <<stringify(JObject(
             <<Member(Key_trades, tradesValue(trades)),
               Member(Key_deductible, JNumber(decimal(deductible))),
               Member(Key_signature,
                      JObject(<<Member(Key_contractorName, JString(contractorName)),
                                Member(Key_homeownerName, JString(homeownerName)),
                                Member(Key_homeownerEmail, JString(<<>>)),
                                Member(Key_signatureDate, JString(SignatureDate)),
                                Member(Key_signature, JString(signatureImage))>>)),
               Member(Key_workNotDoing, JString(text))>>))>>
  /\ stage' = "summary"
  /\ pc' = "signed"
  /\ UNCHANGED <<route, result, jsonString, parsedResult, lastError, response,
                 error, loading, renderError>>
  /\ UNCHANGED <<trades, deductible, totals, workNotDoing>>
  /\ UNCHANGED yvars

\* Rep-Calculator review page, handleProceedToSummary on the loaded record:
\* the record is written with the customer of the stored one and the summary
\* page opened
proceedToSummary ==
  /\ pc = "loaded"
  /\ stage = "review"
  /\ ~renderError
  /\ storedByRepCalculator
  /\ \E text \in {workNotDoingOf(trades)} :
       \E parsedExisting \in {IF scopeData = <<>> THEN JObject(<<>>) ELSE storedData.val} :
         scopeData' =
           <<stringify(JObject(
               <<Member(Key_trades, tradesValue(trades)),
                 Member(Key_deductible, JNumber(decimal(deductible))),
                 Member(Key_claimNumber, claimNumber),
                 Member(Key_claimAdjuster, claimAdjuster),
                 Member(Key_rep, rep),
                 Member(Key_workNotDoing, JString(text)),
                 Member(Key_customer,
                        orElse(get(parsedExisting, Key_customer), JNull))>>))>>
  /\ stage' = "summary"
  /\ loading' = TRUE
  /\ pc' = "summary-mount"
  /\ UNCHANGED <<route, result, jsonString, parsedResult, lastError, response,
                 error, renderError>>
  /\ UNCHANGED <<trades, deductible, totals, workNotDoing>>
  /\ UNCHANGED yvars

\* summary page useEffect: the stored record is loaded, or the upload page
\* opened.  generateSummaries, which the loader starts, only fills the two
\* summary texts of the display.
summaryLoad ==
  /\ pc = "summary-mount"
  /\ \E parsed \in {storedData} :
       \E storedTrades \in {get(parsed.val, Key_trades)} :
         IF ~parsed.ok \/ readThrows(parsed.val)
         THEN /\ stage' = "upload"
              /\ UNCHANGED <<trades, deductible, workNotDoing, mvars>>
         ELSE IF truthy(storedTrades) /\ isArray(storedTrades)
         THEN /\ trades' = [j \in DOMAIN storedTrades.members |->
                              storedTrades.members[j].val]
              /\ deductible' =
                   numberOf(orElse(get(parsed.val, Key_deductible), JNumber(<<"0">>)).text)
              /\ rep' = orElse(get(parsed.val, Key_rep), JString(<<>>))
              /\ workNotDoing' = orElse(get(parsed.val, Key_workNotDoing), JString(<<>>))
              /\ claimNumber' = orElse(get(parsed.val, Key_claimNumber), JString(<<>>))
              /\ claimAdjuster' = orElse(get(parsed.val, Key_claimAdjuster), NoAdjuster)
              /\ customer' = orElse(get(parsed.val, Key_customer), JNull)
              /\ UNCHANGED stage
         ELSE UNCHANGED <<stage, trades, deductible, workNotDoing, mvars>>
  /\ loading' = FALSE
  /\ pc' = "summary"
  /\ UNCHANGED <<route, result, jsonString, parsedResult, lastError, response,
                 scopeData, error, renderError>>
  /\ UNCHANGED totals
  /\ UNCHANGED <<svars, qvars, pathname>>

\* ---------------------------------------------------------------- notes
\* size of the claim records whose notes are edited
MaxNotesSize == 4

\* texts the reviewer can type into a notes field
NoteVals == {"call first"}

\* { ...item, notes }
withNotes(item, notes) ==
  [f \in DOMAIN item \cup {"notes"} |-> IF f = "notes" THEN notes ELSE item[f]]

\* the notes set on the item of that id in every trade
updateNotesMapAnyTrade(prevTrades, tradeId, itemId, notes) ==
  [j \in DOMAIN prevTrades |->
     [prevTrades[j] EXCEPT !.lineItems =
        [k \in DOMAIN @ |-> IF @[k].id = itemId THEN withNotes(@[k], notes) ELSE @[k]]]]

\* the argument of setTrades in updateNotes
updateNotesMap(prevTrades, tradeId, itemId, notes) ==
  [j \in DOMAIN prevTrades |->
     IF prevTrades[j].id = tradeId
     THEN [prevTrades[j] EXCEPT !.lineItems =
             [k \in DOMAIN @ |-> IF @[k].id = itemId THEN withNotes(@[k], notes)
                                 ELSE @[k]]]
     ELSE prevTrades[j]]

updateNotes(tradeId, itemId, notes) ==
  /\ stage = "review"
  /\ Size(trades) <= MaxNotesSize
  /\ trades' = updateNotesMap(trades, tradeId, itemId, notes)
  /\ totals' = calculateTotals(trades')
  /\ UNCHANGED <<stage, deductible, workNotDoing>>
  /\ UNCHANGED <<xvars, yvars>>

NextReview ==
  \/ Next
  \/ \E tradeId \in TradeIds : \E itemId \in ItemIds(tradeId), notes \in NoteVals :
       updateNotes(tradeId, itemId, notes)

\* the wizard with the notes of the line items
SpecReview == Init /\ [][NextReview]_allvars

\* the process-document route, which no page of the repository calls
NextDocument ==
  \/ \E fileName \in Submissions, outcome \in ModelOutcomes :
       processDocumentPOST(fileName, outcome)
  \/ attempt1
  \/ attempt2
  \/ respond
  \/ processDocumentCatch

\* one request to the process-document route, from the request to the response
SpecDocument == Init /\ [][NextDocument]_allvars

\* the upload page, the parse-scope route it calls and the review page it opens
NextExtract ==
  \/ \E text \in Submissions : handleParseFetch(text)
  \/ \E text \in Submissions, outcome \in ModelOutcomes : parseScopePOST(text, outcome)
  \/ parseScopeParse
  \/ parseScopeCatch
  \/ respond
  \/ handleParseResponse
  \/ navigateToReview
  \/ reviewLoad

\* the extraction of one document, from the request to the loaded review page
SpecExtract == Init /\ [][NextExtract]_allvars

\* ---------------------------------------------------------------- delivery to JobNimbus
\* messages of the summary page
NoCustomerSelected ==
  <<"N","o"," ","c","u","s","t","o","m","e","r"," ","s","e","l","e","c","t",
    "e","d","."," ","P","l","e","a","s","e"," ","g","o"," ","b","a","c","k",
    " ","a","n","d"," ","s","e","l","e","c","t"," ","a"," ","c","u","s","t",
    "o","m","e","r",".">>

UnableToGeneratePdf ==
  <<"U","n","a","b","l","e"," ","t","o"," ","g","e","n","e","r","a","t","e",
    " ","P","D","F">>

FailedToSend ==
  <<"F","a","i","l","e","d"," ","t","o"," ","s","e","n","d"," ","t","o"," ",
    "J","o","b","N","i","m","b","u","s">>

\* message of the TypeError a fetch rejects with
FailedToFetch ==
  <<"F","a","i","l","e","d"," ","t","o"," ","f","e","t","c","h">>

\* message of an Error html2canvas rejects with
CanvasError ==
  <<"U","n","a","b","l","e"," ","t","o"," ","f","i","n","d"," ","e","l","e",
    "m","e","n","t"," ","i","n"," ","c","l","o","n","e","d"," ","i","f","r",
    "a","m","e">>

\* a customer of the JobNimbus search
CustomerName ==
  <<"A","n","n"," ","L","e","e">>

CustomerAddress ==
  <<"1"," ","M","a","i","n"," ","S","t">>

CustomerJnid ==
  <<"j","1">>

\* the customers a stored record can hold: none, one without a JobNimbus id,
\* one with it
StoredCustomers ==
  {JNull,
   JObject(<<Member(Key_displayName, JString(CustomerName)),
             Member(Key_address, JString(CustomerAddress)),
             Member(Key_jnid, JString(<<>>))>>),
   JObject(<<Member(Key_displayName, JString(CustomerName)),
             Member(Key_address, JString(CustomerAddress)),
             Member(Key_jnid, JString(CustomerJnid))>>)}

\* the record handleProceedToSummary writes for an extracted record, a
\* deductible and a customer
writtenRecord(data, d, c) ==
  JObject(<<Member(Key_trades, get(data, Key_trades)),
            Member(Key_deductible, JNumber(decimal(d))),
            Member(Key_claimNumber, orElse(get(data, Key_claimNumber), JString(<<>>))),
            Member(Key_claimAdjuster, orElse(get(data, Key_claimAdjuster), NoAdjuster)),
            Member(Key_rep, JString(ColinBlack)),
            Member(Key_workNotDoing,
                   JString(workNotDoingOf([j \in DOMAIN get(data, Key_trades).members |->
                                             get(data, Key_trades).members[j].val]))),
            Member(Key_customer, c)>>)

\* extracted records the upload page accepts: those of the texts that parse,
\* with one trade or two
ExtractedRecords ==
  {JSONparse(text).val :
     text \in {t \in {RecordHead \o TradesHead \o TradeText(shape, description) \o more
                        \o <<"]", "}">> :
                      shape \in {"full", "noChecked"}, description \in Descriptions,
                      more \in {<<>>, <<",">> \o TradeText("full", PlainDescription)}} :
                JSONparse(t).ok}}

\* records the review page can have written
SummaryRecords ==
  {writtenRecord(data, d, c) :
     data \in ExtractedRecords, d \in {v \in DeductibleVals : v >= 0},
     c \in StoredCustomers}

\* what an awaited call of the delivery comes back with: a value, an Error
\* with a message, or a thrown value that is no Error
Fulfilled == [kind |-> "value", text |-> <<>>]

Thrown(message) == [kind |-> "error", text |-> message]

ThrownValue == [kind |-> "thrown", text |-> <<>>]

PdfOutcomes == {Fulfilled, Thrown(CanvasError), ThrownValue}

FetchOutcomes == {Fulfilled, Thrown(FailedToFetch)}

\* statuses of the webhook's response
WebhookStatuses == {200, 400, 500}

\* the review page has written a record and opened the summary page
openSummary(record) ==
  /\ pc = "idle"
  /\ stage = "upload"
  /\ scopeData' = <<stringify(record)>>
  /\ stage' = "summary"
  /\ loading' = TRUE
  /\ pc' = "summary-mount"
  /\ UNCHANGED <<route, result, jsonString, parsedResult, lastError, response,
                 error, renderError>>
  /\ UNCHANGED <<trades, deductible, totals, workNotDoing>>
  /\ UNCHANGED yvars

\* always the fallback message
errorMessageFallback(thrown) == FailedToSend

\* error instanceof Error ? error.message : 'Failed to send to JobNimbus'
errorMessage(thrown) == IF thrown.kind = "error" THEN thrown.text ELSE FailedToSend

\* handleSendToJobNimbus up to the call of generatePDFFromCapture; attached
\* tells whether printableRef.current is set
handleSendToJobNimbus(attached) ==
  /\ pc = "summary"
  /\ stage = "summary"
  /\ IF ~truthy(customer) \/ ~truthy(get(customer, Key_jnid))
     THEN /\ sendingError' = NoCustomerSelected
          /\ UNCHANGED <<sendingToJobNimbus, pc>>
     ELSE IF ~attached
     THEN /\ sendingError' = UnableToGeneratePdf
          /\ UNCHANGED <<sendingToJobNimbus, pc>>
     ELSE /\ sendingToJobNimbus' = TRUE
          /\ sendingError' = <<>>
          /\ pc' = "pdf"
  /\ UNCHANGED <<route, result, jsonString, parsedResult, lastError, response,
                 scopeData, error, loading, renderError>>
  /\ UNCHANGED vars
  /\ UNCHANGED <<mvars, qvars, pathname>>

\* generatePDFFromCapture settles: the document is posted to the webhook, or
\* the catch and finally blocks run
pdfSettles(outcome) ==
  /\ pc = "pdf"
  /\ result' = outcome
  /\ IF outcome.kind = "value"
     THEN /\ pc' = "webhook"
          /\ UNCHANGED svars
     ELSE /\ sendingError' = errorMessage(outcome)
          /\ sendingToJobNimbus' = FALSE
          /\ pc' = "summary"
  /\ UNCHANGED <<route, jsonString, parsedResult, lastError, response,
                 scopeData, error, loading, renderError>>
  /\ UNCHANGED vars
  /\ UNCHANGED <<mvars, qvars, pathname>>

\* the fetch of the webhook settles, with the response's status when it is
\* fulfilled; read is what response.text() comes back with.  The rest of the
\* try block, the catch block and the finally block run.
webhookSettles(outcome, status, read) ==
  /\ pc = "webhook"
  /\ result' = IF outcome.kind # "value" THEN outcome
               ELSE IF status \in 200..299 THEN Fulfilled
               ELSE IF read.kind # "value" THEN read
               ELSE Thrown(FailedToSend \o ColonSpace \o decimal(status))
  /\ response' = IF outcome.kind = "value"
                 THEN [status |-> status, body |-> <<>>]
                 ELSE response
  /\ sendingError' = IF result'.kind = "value" THEN sendingError
                     ELSE errorMessage(result')
  /\ sendingToJobNimbus' = FALSE
  /\ pc' = "summary"
  /\ UNCHANGED <<route, jsonString, parsedResult, lastError, scopeData, error,
                 loading, renderError>>
  /\ UNCHANGED vars
  /\ UNCHANGED <<mvars, qvars, pathname>>

\* summary page handleStartOver: the stored record is removed and the upload
\* page opened; the summary page is unmounted and its state and what it
\* awaited are gone
summaryStartOver ==
  /\ pc \in {"summary", "pdf", "webhook"}
  /\ stage = "summary"
  /\ scopeData' = <<>>
  /\ stage' = "upload"
  /\ pc' = "idle"
  /\ trades' = <<>>
  /\ deductible' = 0
  /\ workNotDoing' = ""
  /\ claimNumber' = JString(<<>>)
  /\ claimAdjuster' = NoAdjuster
  /\ rep' = JString(<<>>)
  /\ customer' = JNull
  /\ sendingToJobNimbus' = FALSE
  /\ sendingError' = <<>>
  /\ result' = NoResult
  /\ response' = NoResponse
  /\ UNCHANGED <<route, jsonString, parsedResult, lastError, error, loading,
                 renderError>>
  /\ UNCHANGED totals
  /\ UNCHANGED <<qvars, pathname>>

NextSummary ==
  \/ \E record \in SummaryRecords : openSummary(record)
  \/ summaryLoad
  \/ \E attached \in BOOLEAN : handleSendToJobNimbus(attached)
  \/ \E outcome \in PdfOutcomes : pdfSettles(outcome)
  \/ \E outcome \in FetchOutcomes, status \in WebhookStatuses, read \in FetchOutcomes :
       webhookSettles(outcome, status, read)
  \/ summaryStartOver

\* the summary page, from the record the review page wrote to the delivery
SpecSummary == Init /\ [][NextSummary]_allvars

\* ---------------------------------------------------------------- finalizing the review
Key_id ==
  <<"i","d">>

\* the records an upload page can have stored for an extracted record: the
\* one of scope-builder, and the one of Rep-Calculator for each customer
UploadedRecords ==
  UNION {{storedRecordScopeBuilder(data)}
           \cup {storedRecordFor(data, selected) : selected \in StoredCustomers} :
         data \in ExtractedRecords}

\* an upload page has stored a record and opened the review page
openReview(record) ==
  /\ pc = "idle"
  /\ stage = "upload"
  /\ scopeData' = <<stringify(record)>>
  /\ stage' = "review"
  /\ loading' = TRUE
  /\ pc' = "mount"
  /\ UNCHANGED <<route, result, jsonString, parsedResult, lastError, response,
                 error, renderError>>
  /\ UNCHANGED <<trades, deductible, totals, workNotDoing>>
  /\ UNCHANGED yvars

\* { ...trade, checked: newChecked, lineItems: trade.lineItems.map(...) }
toggledTrade(trade) ==
  LET newChecked == IF truthy(get(trade, Key_checked)) THEN JFalse ELSE JTrue
      items == get(trade, Key_lineItems).members
  IN  JObject(put(put(trade.members, Key_checked, newChecked),
                  Key_lineItems,
                  JArray([k \in DOMAIN items |->
                            Member(<<>>, JObject(put(items[k].val.members,
                                                     Key_checked, newChecked)))])))

\* toggleTrade on the loaded trades
toggleLoadedTrade(tradeId) ==
  /\ pc = "loaded"
  /\ stage = "review"
  /\ ~renderError
  /\ trades' = [j \in DOMAIN trades |->
                  IF get(trades[j], Key_id) = tradeId THEN toggledTrade(trades[j])
                  ELSE trades[j]]
  /\ UNCHANGED <<stage, deductible, totals, workNotDoing>>
  /\ UNCHANGED <<xvars, yvars>>

\* the deductible input of the review page, for an amount that is not negative
editDeductible(value) ==
  /\ pc = "loaded"
  /\ stage = "review"
  /\ ~renderError
  /\ deductible' = value
  /\ UNCHANGED <<stage, trades, totals, workNotDoing>>
  /\ UNCHANGED <<xvars, yvars>>

\* names typed into the signature form
SignerNames == {<<"A">>, <<"B", " ">>}

NextFinalize ==
  \/ \E record \in UploadedRecords : openReview(record)
  \/ reviewLoad
  \/ \E j \in DOMAIN trades : toggleLoadedTrade(get(trades[j], Key_id))
  \/ \E value \in {v \in DeductibleVals : v >= 0} : editDeductible(value)
  \/ \E contractorName \in SignerNames, homeownerName \in SignerNames :
       handleSignatureSave(contractorName, homeownerName, SignatureImage)
  \/ proceedToSummary
  \/ summaryLoad

\* the review of a stored record, from the review page's load to the summary
\* page's load
SpecFinalize == Init /\ [][NextFinalize]_allvars

\* ---------------------------------------------------------------- customer search
\* debounce timers one visit of the upload page sets
MaxSearches == 3

\* what the reviewer types into the search field, one text per call of
\* handleCustomerSearch
Queries == {<<"a">>, <<"a", " ">>, <<"a", "b">>, <<"a", "b", "c">>}

\* the customers the search route returns for a query: the one whose name
\* begins with it
resultsOf(query) ==
  <<JObject(<<Member(Key_displayName, JString(query \o <<" ", "L", "e", "e">>)),
              Member(Key_address, JString(CustomerAddress)),
              Member(Key_jnid, JString(CustomerJnid))>>)>>

\* what a search request comes back with: customers, no customer, a status
\* that is not ok, a network error
SearchOutcomes == {"results", "empty", "notOk", "error"}

\* clearTimeout(searchTimeoutRef.current) on the pending timers
clearTimeout(pending, id) == {t \in pending : t.id # id}

\* handleCustomerSearch(query): a short query empties and closes the list;
\* another one replaces the pending timer by a new one
handleCustomerSearch(query) ==
  /\ stage = "upload"
  /\ customerSearch' = query
  /\ IF Len(trim(query)) < 2
     THEN /\ searchResults' = <<>>
          /\ showSearchResults' = FALSE
          /\ UNCHANGED <<searching, searchTimeoutRef, timers>>
     ELSE /\ searchTimeoutRef < MaxSearches
          /\ searching' = TRUE
          /\ searchTimeoutRef' = searchTimeoutRef + 1
          /\ timers' = clearTimeout(timers, searchTimeoutRef)
                         \cup {[id |-> searchTimeoutRef + 1, query |-> query]}
          /\ UNCHANGED <<searchResults, showSearchResults>>
  /\ UNCHANGED <<selectedCustomer, fetches>>
  /\ UNCHANGED <<vars, xvars, mvars, svars, pathname>>

\* a debounce timer fires after 300 ms: the search request for its query is
\* sent
timerFires(timer) ==
  /\ timer \in timers
  /\ timers' = timers \ {timer}
  /\ fetches' = fetches \cup {timer}
  /\ UNCHANGED <<customerSearch, searchResults, showSearchResults, searching,
                 searchTimeoutRef, selectedCustomer>>
  /\ UNCHANGED <<vars, xvars, mvars, svars, pathname>>

\* the search request of a timer settles: the rest of the timer's callback
searchSettles(fetch, outcome) ==
  /\ fetch \in fetches
  /\ fetches' = fetches \ {fetch}
  /\ CASE outcome = "results" ->
            /\ searchResults' = resultsOf(fetch.query)
            /\ showSearchResults' = TRUE
       [] outcome = "empty" ->
            /\ searchResults' = <<>>
            /\ showSearchResults' = TRUE
       [] OTHER ->
            /\ searchResults' = <<>>
            /\ UNCHANGED showSearchResults
  /\ searching' = FALSE
  /\ UNCHANGED <<customerSearch, searchTimeoutRef, selectedCustomer, timers>>
  /\ UNCHANGED <<vars, xvars, mvars, svars, pathname>>

\* a customer of the open list is clicked
handleSelectCustomer(k) ==
  /\ stage = "upload"
  /\ showSearchResults
  /\ k \in DOMAIN searchResults
  /\ selectedCustomer' = searchResults[k]
  /\ customerSearch' = get(searchResults[k], Key_displayName).text
  /\ showSearchResults' = FALSE
  /\ UNCHANGED <<searchResults, searching, searchTimeoutRef, timers, fetches>>
  /\ UNCHANGED <<vars, xvars, mvars, svars, pathname>>

NextSearch ==
  \/ \E query \in Queries : handleCustomerSearch(query)
  \/ \E timer \in timers : timerFires(timer)
  \/ \E fetch \in fetches, outcome \in SearchOutcomes : searchSettles(fetch, outcome)
  \/ \E k \in DOMAIN searchResults : handleSelectCustomer(k)

\* the customer search of the upload page
SpecSearch == Init /\ [][NextSearch]_allvars

\* ---------------------------------------------------------------- serving saved PDFs
\* segments of a request target after the route's path
MaxSegments == 5

\* the path the GET handler of send-to-zapier splits the pathname at
ZapierGetPdf ==
  <<"/","a","p","i","/","s","e","n","d","-","t","o","-","z","a","p","i","e",
    "r","/","g","e","t","-","p","d","f","/">>

\* the path the GET handler of parse-scope/route.ts splits the pathname at
GetPdf ==
  <<"/","a","p","i","/","g","e","t","-","p","d","f","/">>

\* the path of the parse-scope route
ParseScopePath ==
  <<"/","a","p","i","/","p","a","r","s","e","-","s","c","o","p","e","/">>

\* process.cwd() of the server
Cwd ==
  <<"/","a","p","p">>

TmpPdfs ==
  <<"t","m","p","-","p","d","f","s">>

\* a PDF that the POST handler saved, and files next to the directory
SavedPdf ==
  <<"/","a","p","p","/","t","m","p","-","p","d","f","s","/","1","_","1">>

SiblingFile ==
  <<"/","a","p","p","/","t","m","p","-","p","d","f","s","2">>

EnvFile ==
  <<"/","a","p","p","/","1">>

\* messages of the GET handler
InvalidFilePath ==
  <<"I","n","v","a","l","i","d"," ","f","i","l","e"," ","p","a","t","h">>

PdfNotFound ==
  <<"P","D","F"," ","n","o","t"," ","f","o","u","n","d">>

\* the files of the server: path and bytes
Files ==
  {[path |-> SavedPdf, bytes |-> <<"%", "P", "D", "F", "1">>],
   [path |-> SiblingFile, bytes |-> <<"%", "P", "D", "F", "2">>],
   [path |-> EnvFile, bytes |-> <<"K", "E", "Y">>]}

\* segments a client can put into a request target
TargetSegments ==
  {<<>>, <<"1">>, <<".", ".">>, <<"%", "2", "e", "%", "2", "E">>,
   <<"t", "m", "p", "-", "p", "d", "f", "s", "2">>}

\* String.prototype.split(sep) from index i on
RECURSIVE splitOn(_, _, _)
splitOn(s, i, sep) ==
  LET hits == {k \in i..Len(s) : matchesAt(s, k, sep)}
  IN  IF hits = {} THEN <<SubSeq(s, i, Len(s))>>
      ELSE <<SubSeq(s, i, Min(hits) - 1)>> \o splitOn(s, Min(hits) + Len(sep), sep)

\* Array.prototype.join('/') of the first n pieces
RECURSIVE joinSlash(_, _)
joinSlash(pieces, n) ==
  IF n = 0 THEN <<>>
  ELSE IF n = 1 THEN pieces[1]
  ELSE joinSlash(pieces, n - 1) \o <<"/">> \o pieces[n]

\* the sequences over S of length n
RECURSIVE SeqsOf(_, _)
SeqsOf(S, n) ==
  IF n = 0 THEN {<<>>}
  ELSE {Append(q, x) : q \in SeqsOf(S, n - 1), x \in S}

\* request targets a handler is called with: its path followed by segments,
\* and paths of other routes
Targets(prefix) ==
  {prefix \o joinSlash(tail, Len(tail)) :
     tail \in UNION {SeqsOf(TargetSegments, n) : n \in 0..MaxSegments}}
    \cup {ParseScopePath, ZapierGetPdf \o <<"1", "/", "1">>, GetPdf \o <<"1", "/", "1">>}

\* a segment the URL parser reads as "." or as "..", percent-encoded or not
SingleDot == {<<".">>, <<"%", "2", "e">>, <<"%", "2", "E">>}

DoubleDot == {a \o b : a \in SingleDot, b \in SingleDot}

\* the path of the URL parser after the first n segments of a target: a
\* double-dot segment removes the segment before it, a single-dot segment is
\* skipped, and either leaves an empty segment when it is the last one
RECURSIVE urlPath(_, _)
urlPath(segments, n) ==
  IF n = 0 THEN <<>>
  ELSE LET path == urlPath(segments, n - 1)
           last == n = Len(segments)
       IN  IF segments[n] \in DoubleDot
           THEN (IF path = <<>> THEN <<>> ELSE SubSeq(path, 1, Len(path) - 1))
                  \o (IF last THEN <<(<<>>)>> ELSE <<>>)
           ELSE IF segments[n] \in SingleDot
           THEN path \o (IF last THEN <<(<<>>)>> ELSE <<>>)
           ELSE Append(path, segments[n])

\* the target as it is, dot segments included
rawPathname(target) == target

\* request.nextUrl.pathname: the pathname of the URL parsed from the target
urlPathname(target) ==
  LET segments == Tail(splitOn(target, 1, <<"/">>))
      path == urlPath(segments, Len(segments))
  IN  <<"/">> \o joinSlash(path, Len(path))

\* the segments of a normalized absolute path after the first n segments
RECURSIVE normalSegments(_, _)
normalSegments(segments, n) ==
  IF n = 0 THEN <<>>
  ELSE LET path == normalSegments(segments, n - 1)
       IN  IF segments[n] \in {<<>>, <<".">>} THEN path
           ELSE IF segments[n] = <<".", ".">>
           THEN (IF path = <<>> THEN <<>> ELSE SubSeq(path, 1, Len(path) - 1))
           ELSE Append(path, segments[n])

\* path.join(a, b) of an absolute path a and a non-empty b on POSIX: the two
\* joined by a slash and normalized; a trailing slash is kept
pathJoin(a, b) ==
  LET joined == a \o <<"/">> \o b
      segments == splitOn(joined, 1, <<"/">>)
      path == normalSegments(segments, Len(segments))
  IN  IF path = <<>> THEN <<"/">>
      ELSE <<"/">> \o joinSlash(path, Len(path))
             \o (IF joined[Len(joined)] = "/" THEN <<"/">> ELSE <<>>)

\* the response of the GET handler that splits the pathname at prefix:
\* reading a piece of a split without a second piece throws, as fs.readFile
\* of a path that is no file does
servePdf(prefix, path) ==
  LET pieces == splitOn(path, 1, prefix)
  IN  IF Len(pieces) < 2 THEN ErrorJson(404, PdfNotFound)
      ELSE LET parts == splitOn(pieces[2], 1, <<"/">>)
               timestamp == parts[1]
               safeFilename == joinSlash(Tail(parts), Len(parts) - 1)
               tempDir == pathJoin(Cwd, TmpPdfs)
               filepath == pathJoin(tempDir, timestamp \o <<"_">> \o safeFilename)
           IN  IF ~startsWith(filepath, tempDir) THEN ErrorJson(403, InvalidFilePath)
               ELSE IF \E f \in Files : f.path = filepath
               THEN [status |-> 200,
                     body |-> (CHOOSE f \in Files : f.path = filepath).bytes]
               ELSE ErrorJson(404, PdfNotFound)

\* GET of the route whose handler splits at prefix, for a request target
GET(prefix, target) ==
  /\ pc = "idle"
  /\ route' = "get-pdf"
  /\ \E path \in {urlPathname(target)} :
       /\ pathname' = path
       /\ response' = servePdf(prefix, path)
  /\ pc' = "served"
  /\ UNCHANGED <<result, jsonString, parsedResult, lastError, scopeData, error,
                 loading, renderError>>
  /\ UNCHANGED <<vars, mvars, svars, qvars>>

\* the response has been sent
served ==
  /\ pc = "served"
  /\ pc' = "idle"
  /\ route' = "none"
  /\ response' = NoResponse
  /\ pathname' = <<>>
  /\ UNCHANGED <<result, jsonString, parsedResult, lastError, scopeData, error,
                 loading, renderError>>
  /\ UNCHANGED <<vars, mvars, svars, qvars>>

NextPdf ==
  \/ \E prefix \in {ZapierGetPdf, GetPdf} : \E target \in Targets(prefix) :
       GET(prefix, target)
  \/ served

\* requests to the two routes that serve the saved PDFs
SpecPdf == Init /\ [][NextPdf]_allvars

\* ================================================================ properties
\* sum of f[x] over the elements x of the finite set S
RECURSIVE SumOver(_, _)
SumOver(S, f) ==
  IF S = {} THEN 0
  ELSE LET x == CHOOSE y \in S : TRUE IN f[x] + SumOver(S \ {x}, f)

CheckedItems(trade) == {k \in DOMAIN trade.lineItems : trade.lineItems[k].checked}

UncheckedItems(trade) == {k \in DOMAIN trade.lineItems : ~trade.lineItems[k].checked}

RcvSum(trade, S) == SumOver(S, [k \in S |-> trade.lineItems[k].rcv])

\* acv where present, 0 where absent
AcvOrZero(item) == IF Len(item.acv) = 1 THEN item.acv[1] ELSE 0

AcvSum(trade, S) == SumOver(S, [k \in S |-> AcvOrZero(trade.lineItems[k])])

SupplementSum(trade) ==
  SumOver(DOMAIN trade.supplements,
          [i \in DOMAIN trade.supplements |-> trade.supplements[i].amount])

\* the last trade in trade order that carries the name of trade j
LastOfName(j) == \A i \in DOMAIN trades : i > j => trades[i].name # trades[j].name

\* C1: for every trade, the per-trade RCV that calculateTotals computes (and
\* enters in the per-trade table) is the sum of rcv over exactly the checked
\* line items of the trade plus the sum of amount over all its supplements,
\* whatever the checked flags of the trade and of its other items are.
C1_TradeRcvIsCheckedRcvPlusSupplements ==
  \A j \in DOMAIN trades :
    LET expected == RcvSum(trades[j], CheckedItems(trades[j])) + SupplementSum(trades[j])
    IN /\ tradeRcv(trades[j]) = expected
       /\ LastOfName(j) => totals.tradeTotals[trades[j].name].rcv = expected

\* an unchecked trade with a checked item, an unchecked item and a supplement
\* of 60: its RCV is the checked item's rcv plus 60
C1_Witness ==
  \E j \in DOMAIN trades :
    /\ ~trades[j].checked
    /\ CheckedItems(trades[j]) # {} /\ UncheckedItems(trades[j]) # {}
    /\ \E i \in DOMAIN trades[j].supplements : trades[j].supplements[i].amount = 60
    /\ LastOfName(j)
    /\ totals.tradeTotals[trades[j].name].rcv =
         RcvSum(trades[j], CheckedItems(trades[j])) + 60

\* C2: for every trade, the per-trade ACV is the sum of acv over the checked
\* line items, an absent acv counting as 0 and never as rcv, plus the same
\* supplement total that the RCV gets; so RCV - ACV of the trade is the sum of
\* rcv - (acv or 0) over the checked line items only.
C2_TradeAcvIsCheckedAcvPlusSupplements ==
  \A j \in DOMAIN trades :
    LET t == trades[j]
        expected == AcvSum(t, CheckedItems(t)) + SupplementSum(t)
    IN /\ tradeAcv(t) = expected
       /\ tradeRcv(t) - tradeAcv(t) =
            RcvSum(t, CheckedItems(t)) - AcvSum(t, CheckedItems(t))
       /\ LastOfName(j) => totals.tradeTotals[t.name].acv = expected

\* a trade with a checked item that has no acv and a supplement of 60: the
\* item adds nothing to the ACV, the supplement adds 60
C2_Witness ==
  \E j \in DOMAIN trades :
    /\ \E k \in CheckedItems(trades[j]) : Len(trades[j].lineItems[k].acv) = 0
    /\ \E i \in DOMAIN trades[j].supplements : trades[j].supplements[i].amount = 60
    /\ LastOfName(j)
    /\ totals.tradeTotals[trades[j].name].acv < totals.tradeTotals[trades[j].name].rcv
    /\ totals.tradeTotals[trades[j].name].acv =
         AcvSum(trades[j], CheckedItems(trades[j])) + 60

\* the unchecked line items of the record, as <<trade index, item index>>
AllUnchecked == {p \in (DOMAIN trades) \X (1..MaxSize) :
                   p[2] \in UncheckedItems(trades[p[1]])}

\* C3: leftoverAcv is the sum of acv, where present, over all unchecked line
\* items across all trades; the checked flag of the parent trade plays no part.
C3_LeftoverAcvIsUncheckedAcv ==
  totals.leftoverAcv =
    SumOver(AllUnchecked,
            [p \in AllUnchecked |-> AcvOrZero(trades[p[1]].lineItems[p[2]])])

\* the scenario of the specification: trade 1 is rcv 100 / acv 60 checked and
\* rcv 50 / acv 30 unchecked, no supplements, its flag set: RCV 100, ACV 60,
\* and 30 of leftover; a second, unchecked trade adds its own unchecked acv
C3_Witness ==
  /\ Len(trades) = 2
  /\ trades[1].checked /\ ~trades[2].checked
  /\ CheckedItems(trades[1]) = {1} /\ UncheckedItems(trades[1]) = {2}
  /\ trades[1].supplements = <<>>
  /\ tradeRcv(trades[1]) = 100 /\ tradeAcv(trades[1]) = 60
  /\ UncheckedItems(trades[2]) = {1}
  /\ totals.leftoverAcv = 30 + 120
\* index of the trade with the given id, index of the item with the given id
TradeIndex(tradeId) == CHOOSE j \in DOMAIN trades : trades[j].id = tradeId

ItemIndex(j, itemId) ==
  CHOOSE k \in DOMAIN trades[j].lineItems : trades[j].lineItems[k].id = itemId

\* what one toggleLineItem(tradeId, itemId) step does to the record
ToggleLineItemEffect(tradeId, itemId) ==
  LET j == TradeIndex(tradeId)
      k == ItemIndex(j, itemId)
      rcv == trades[j].lineItems[k].rcv
  IN /\ DOMAIN trades' = DOMAIN trades
     /\ trades'[j].lineItems[k].checked = ~trades[j].lineItems[k].checked
     /\ tradeRcv(trades'[j]) - tradeRcv(trades[j]) =
          IF trades'[j].lineItems[k].checked THEN rcv ELSE 0 - rcv
     /\ \A i \in DOMAIN trades :
          /\ i # j => tradeRcv(trades'[i]) = tradeRcv(trades[i])
          /\ trades'[i].supplements = trades[i].supplements
          /\ DOMAIN trades'[i].lineItems = DOMAIN trades[i].lineItems
          /\ \A l \in DOMAIN trades[i].lineItems :
               <<i, l>> # <<j, k>> =>
                 trades'[i].lineItems[l].checked = trades[i].lineItems[l].checked

\* C4: toggleLineItem(tradeId, itemId) on an existing line item changes that
\* trade's RCV by exactly the item's rcv, added when the item becomes checked
\* and subtracted when it becomes unchecked, and leaves the RCV of every other
\* trade, every supplement and the flag of every other line item as they were.
C4_ToggleLineItemChangesOnlyItsRcv ==
  [][\A tradeId \in TradeIds : \A itemId \in ItemIds(tradeId) :
       toggleLineItem(tradeId, itemId) => ToggleLineItemEffect(tradeId, itemId)]_vars

\* after toggles of single items: two trades whose items carry the same ids,
\* the first with item 1 checked and item 2 not under an unchecked trade flag
\* (a freshly extracted trade gets there only by toggleLineItem), the second
\* untouched, and the first trade's RCV is item 1's rcv
C4_Witness ==
  /\ stage = "review"
  /\ Len(trades) = 2
  /\ ~trades[1].checked
  /\ CheckedItems(trades[1]) = {1} /\ UncheckedItems(trades[1]) = {2}
  /\ UncheckedItems(trades[2]) = {1}
  /\ totals.totalRcv = trades[1].lineItems[1].rcv

\* the summary page shows a record that the extraction or the reviewer made
Summary == stage = "summary"

\* C5: dueToday is totalAcv + deductible when totalAcv is strictly less than
\* half of totalRcv, and exactly half of totalRcv otherwise, the boundary
\* totalAcv = totalRcv / 2 included (both sides doubled).
C5_DueTodayBranches ==
  Summary =>
    /\ 2 * totals.totalAcv < totals.totalRcv =>
         dueTodayX2 = 2 * totals.totalAcv + 2 * deductible
    /\ 2 * totals.totalAcv >= totals.totalRcv => dueTodayX2 = totals.totalRcv

\* the boundary with money on the table: totalAcv is exactly half of a
\* positive totalRcv, the deductible is not 0, and dueToday is that half
C5_Witness ==
  /\ Summary
  /\ totals.totalRcv > 0
  /\ 2 * totals.totalAcv = totals.totalRcv
  /\ deductible # 0
  /\ dueTodayX2 = totals.totalRcv

\* C6 as stated: dueOnCompletion is max(0, totalAcv - dueToday), never
\* negative, and 0 whenever totalAcv is strictly less than half of totalRcv.
C6_DueOnCompletionZeroInFirstBranch ==
  Summary =>
    /\ dueSubX2 = Max(0, 2 * totals.totalAcv - dueTodayX2)
    /\ dueSubX2 >= 0
    /\ 2 * totals.totalAcv < totals.totalRcv => dueSubX2 = 0

\* C6 as amended: dueOnCompletion is max(0, totalAcv - dueToday), never
\* negative; when totalAcv is strictly less than half of totalRcv it is
\* max(0, -deductible), which is 0 exactly when the deductible is not negative.
C6_DueOnCompletionFirstBranch ==
  Summary =>
    /\ dueSubX2 = Max(0, 2 * totals.totalAcv - dueTodayX2)
    /\ dueSubX2 >= 0
    /\ 2 * totals.totalAcv < totals.totalRcv =>
         /\ dueSubX2 = Max(0, 0 - 2 * deductible)
         /\ dueSubX2 = 0 <=> deductible >= 0

\* the first branch with a negative deductible: dueOnCompletion is 50
C6_Witness ==
  /\ Summary
  /\ 2 * totals.totalAcv < totals.totalRcv
  /\ totals.totalAcv > 0
  /\ deductible = -50
  /\ dueSubX2 = 100
\* C7 as stated: in the review stage every amount shown as what insurance
\* pays is max(0, totalRcv - deductible), so never negative, and the homeowner
\* amount is the deductible.
C7_InsurancePaysClampedAtZero ==
  stage = "review" =>
    /\ insuranceWillPay = Max(0, totals.totalRcv - deductible)
    /\ insurancePays = Max(0, totals.totalRcv - deductible)
    /\ insuranceWillPay >= 0 /\ insurancePays >= 0
    /\ homeownerPays = deductible

WithTradeFlags(ts, f) == [j \in DOMAIN ts |-> [ts[j] EXCEPT !.checked = f[j]]]

\* number of lines trade j of ts accounts for, and the lines before its first
LineCount(ts, j) == IF ~ts[j].checked THEN 1 ELSE Cardinality(UncheckedItems(ts[j]))

LineOffset(ts, j) == SumOver(1..(j - 1), [i \in 1..(j - 1) |-> LineCount(ts, i)])

\* lines is what the work-not-doing derivation must emit for ts
IsWorkNotDoingOf(lines, ts) ==
  /\ Len(lines) = SumOver(DOMAIN ts, [j \in DOMAIN ts |-> LineCount(ts, j)])
  /\ \A j \in DOMAIN ts :
       IF ~ts[j].checked
       THEN lines[LineOffset(ts, j) + 1] = ts[j].name \o " (entire trade)"
       ELSE \A k \in UncheckedItems(ts[j]) :
              lines[LineOffset(ts, j)
                    + Cardinality({l \in UncheckedItems(ts[j]) : l <= k})]
                = ts[j].name \o ": " \o ts[j].lineItems[k].description

\* C9: calculateWorkNotDoing emits, in trade order, exactly one line
\* "<name> (entire trade)" for each trade whose checked flag is false and, for
\* each checked trade, one line "<name>: <description>" per unchecked line
\* item in line-item order, and nothing else; this for the record on the page
\* under every setting of its trade flags.
C9_WorkNotDoingLines ==
  \A f \in [DOMAIN trades -> BOOLEAN] :
    LET ts == WithTradeFlags(trades, f)
    IN IsWorkNotDoingOf(uncheckedItems(ts, Len(ts)), ts)

\* the scenario of the specification, stored on the way to the summary page:
\* the first trade fully unchecked, the second checked with item 1 checked
\* and item 2 not
C9_Witness ==
  /\ Summary
  /\ Len(trades) = 2
  /\ ~trades[1].checked /\ UncheckedItems(trades[1]) = {1}
  /\ trades[2].checked
  /\ CheckedItems(trades[2]) = {1} /\ UncheckedItems(trades[2]) = {2}
  /\ trades[2].name # trades[1].name
  /\ workNotDoing = "Trade1 (entire trade)\nTrade2: item 2.2"

\* C10: a record that differs from the one on the page only in the checked
\* flags of its trades has the same totalRcv, totalAcv, totalSupplements,
\* leftoverAcv and per-trade table.
C10_TotalsIgnoreTradeFlags ==
  \A f \in [DOMAIN trades -> BOOLEAN] :
    calculateTotals(WithTradeFlags(trades, f)) = totals

\* an unchecked trade whose checked item is counted and whose unchecked item
\* is left over, beside a checked trade
C10_Witness ==
  /\ stage = "review"
  /\ \E j \in DOMAIN trades :
       /\ ~trades[j].checked
       /\ CheckedItems(trades[j]) # {}
       /\ \E k \in UncheckedItems(trades[j]) : AcvTruthy(trades[j].lineItems[k])
       /\ totals.totalRcv >= RcvSum(trades[j], CheckedItems(trades[j]))
  /\ \E j \in DOMAIN trades : trades[j].checked /\ CheckedItems(trades[j]) # {}
  /\ totals.totalRcv > 0 /\ totals.leftoverAcv > 0
\* the last trade in trade order that carries the name of trade j
LastWithNameOf(j) ==
  CHOOSE i \in DOMAIN trades :
    /\ trades[i].name = trades[j].name
    /\ \A l \in DOMAIN trades : l > i => trades[l].name # trades[j].name

NamesDistinct ==
  \A i, j \in DOMAIN trades : i # j => trades[i].name # trades[j].name

\* C11: the per-trade table holds for a name the totals of the last trade of
\* that name, overwritten and not summed, so every trade of the name displays
\* the last one's totals, while totalRcv and totalAcv include every trade;
\* with all names distinct every trade displays its own tradeRcv and tradeAcv.
C11_TableHoldsLastTradeOfName ==
  /\ \A j \in DOMAIN trades :
       displayedTradeTotals(j) =
         [rcv |-> tradeRcv(trades[LastWithNameOf(j)]),
          acv |-> tradeAcv(trades[LastWithNameOf(j)])]
  /\ totals.totalRcv =
       SumOver(DOMAIN trades, [j \in DOMAIN trades |-> tradeRcv(trades[j])])
  /\ totals.totalAcv =
       SumOver(DOMAIN trades, [j \in DOMAIN trades |-> tradeAcv(trades[j])])
  /\ NamesDistinct =>
       \A j \in DOMAIN trades :
         displayedTradeTotals(j) =
           [rcv |-> tradeRcv(trades[j]), acv |-> tradeAcv(trades[j])]

\* two trades of one name with different, non-zero RCVs: the first displays
\* the second's totals, which are not the sum, and totalRcv has both
C11_Witness ==
  /\ Len(trades) = 2
  /\ trades[1].name = trades[2].name
  /\ tradeRcv(trades[1]) > 0 /\ tradeRcv(trades[2]) > tradeRcv(trades[1])
  /\ tradeAcv(trades[1]) > 0
  /\ displayedTradeTotals(1).rcv = tradeRcv(trades[2])
  /\ totals.totalRcv = tradeRcv(trades[1]) + tradeRcv(trades[2])

\* the checked line items of the record, as <<trade index, item index>>
AllChecked == {p \in (DOMAIN trades) \X (1..MaxSize) :
                 p[2] \in CheckedItems(trades[p[1]])}

\* C12: totalRcv is the sum of tradeRcv over all trades, totalAcv the sum of
\* tradeAcv, totalSupplements the sum of all supplement amounts of all trades;
\* so totalRcv - totalSupplements is the rcv sum of all checked line items.
C12_TotalsAreSumsOverTrades ==
  /\ totals.totalRcv =
       SumOver(DOMAIN trades, [j \in DOMAIN trades |-> tradeRcv(trades[j])])
  /\ totals.totalAcv =
       SumOver(DOMAIN trades, [j \in DOMAIN trades |-> tradeAcv(trades[j])])
  /\ totals.totalSupplements =
       SumOver(DOMAIN trades, [j \in DOMAIN trades |-> SupplementSum(trades[j])])
  /\ totals.totalRcv - totals.totalSupplements =
       SumOver(AllChecked, [p \in AllChecked |-> trades[p[1]].lineItems[p[2]].rcv])

\* two trades, each with a supplement of 60, and one checked item
C12_Witness ==
  /\ Len(trades) = 2
  /\ \A j \in 1..2 : SupplementSum(trades[j]) = 60
  /\ Cardinality(AllChecked) = 1
  /\ totals.totalSupplements = 120
  /\ totals.totalRcv > 120
  /\ totals.totalAcv > 120

\* ---------------------------------------------------------------- extraction claims
\* array[k - 1]
at(value, k) ==
  IF value.kind = "array" /\ k \in DOMAIN value.members
  THEN value.members[k].val
  ELSE Undefined

TextOutcome(text) == [kind |-> "text", text |-> text]

JsonTag == <<"j","s","o","n">>

\* a record in a json fence, with a comma before its closing brace and a bare
\* quote inside the description of its line item
FencedCommaQuoteText ==
  Fenced(JsonTag, RecordText("record", "full", BareQuoteDescription, TRUE))

\* C13: a response in a markdown fence with a trailing comma before its closing
\* brace and one unescaped quote inside a description is accepted by
\* process-document: the route answers 200 with a record whose description
\* holds that quote
C13_FencedCommaQuoteResponseIsAccepted ==
  (route = "process-document" /\ pc = "responded"
     /\ result = TextOutcome(FencedCommaQuoteText))
    => /\ response.status = 200
       /\ get(at(get(at(get(parsedResult, Key_trades), 1), Key_lineItems), 1),
              Key_description) = JString(<<"6", Quote, " ", "p", "i", "p", "e">>)

\* the text is a JSON object without an array under trades
lacksTrades(text) ==
  LET parsed == JSONparse(text)
  IN  /\ parsed.ok
      /\ parsed.val.kind = "object"
      /\ ~isArray(get(parsed.val, Key_trades))

\* C14: a model response that is a valid JSON object without a trades array is
\* rejected by the route: process-document never answers it with status 200
C14_RecordWithoutTradesIsRejected ==
  (route = "process-document" /\ pc = "responded" /\ result.kind = "text"
     /\ lacksTrades(result.text))
    => response.status # 200

\* the fenced model texts, each with the text between its fences
FencedTexts ==
  {[text |-> Fenced(tag, body), body |-> body] : tag \in FenceTags, body \in RecordTexts}

\* C15: when the model's text starts with a fence marker, what parse-scope hands
\* to JSON.parse is the text between the fences, whichever tag follows the
\* opening marker
C15_FencesRemovedWhateverTheTag ==
  \A fenced \in FencedTexts :
    (route = "parse-scope" /\ pc = "parse" /\ result = TextOutcome(fenced.text))
      => trim(jsonString) = fenced.body

\* a comma followed only by whitespace and then a closing brace or bracket
hasTrailingComma(s) ==
  \E i \in DOMAIN s :
    /\ s[i] = ","
    /\ \E j \in (i + 1)..Len(s) :
         /\ s[j] \in {"}", "]"}
         /\ \A k \in (i + 1)..(j - 1) : s[k] \in {" ", "\n", "\t", "\r"}

\* C16: the text attempt 1 hands to JSON.parse, the output of repairJSON, has
\* no comma that only whitespace separates from a closing brace or bracket
C16_NoTrailingCommaAfterRepair ==
  (route = "process-document" /\ pc = "attempt1")
    => ~hasTrailingComma(repairJSON(jsonString))

\* the characters of s from its first { through its last }, <<>> when s has no
\* { with a } after it
firstToLastBrace(s) ==
  LET opens == {k \in DOMAIN s : s[k] = "{"}
      closes == {k \in DOMAIN s : s[k] = "}"}
  IN  IF opens = {} \/ closes = {} THEN <<>>
      ELSE LET first == CHOOSE k \in opens : \A m \in opens : k <= m
               last == CHOOSE k \in closes : \A m \in closes : m <= k
           IN  IF last < first THEN <<>> ELSE SubSeq(s, first, last)

\* the well-formed records with prose before and after them
ProseWrapped ==
  {[text |-> ProseBefore \o body \o ProseAfter, value |-> JSONparse(body).val] :
     body \in {b \in RecordTexts : JSONparse(b).ok}}

\* C17: the fallback starts only from attempt 1 and only when the parse of the
\* repaired full text failed; a successful attempt 1 goes straight to the
\* response; the fallback parses the repaired text from the first { through
\* the last } of the cleaned text; prose around one well-formed object yields
\* that object
C17_StagesRunInOrder ==
  [][LET whole == JSONparse(repairJSON(jsonString))
         part == firstToLastBrace(jsonString)
         retry == JSONparse(repairJSON(part))
     IN  /\ pc' = "attempt2" => (pc = "attempt1" /\ ~whole.ok)
         /\ (pc = "attempt1" /\ whole.ok)
              => (pc' = "return" /\ parsedResult' = whole.val)
         /\ pc = "attempt2"
              => IF part # <<>> /\ retry.ok
                 THEN pc' = "return" /\ parsedResult' = retry.val
                 ELSE pc' = "catch" /\ parsedResult' = parsedResult
         /\ \A wrapped \in ProseWrapped :
              (pc = "attempt2" /\ jsonString = wrapped.text)
                => parsedResult' = wrapped.value
    ]_allvars

\* a record between prose was answered with status 200 after attempt 1 failed
C17_Witness ==
  /\ route = "process-document"
  /\ pc = "responded"
  /\ result = TextOutcome(ProseBefore \o RecordText("record", "full", PlainDescription, FALSE)
                            \o ProseAfter)
  /\ lastError # <<>>
  /\ response = Json(200, JSONparse(RecordText("record", "full", PlainDescription, FALSE)).val)

\* C18: every trade of a record that was accepted and loaded by the review
\* page has a supplements array and a boolean checked flag, and calculateTotals
\* does not throw on the loaded trades
C18_LoadedTradesHaveDefaults ==
  (pc = "loaded" /\ stage = "review" /\ scopeData # <<>>)
    => /\ ~renderError
       /\ \A j \in DOMAIN trades :
            /\ isArray(get(trades[j], Key_supplements))
            /\ get(trades[j], Key_checked).kind \in {"true", "false"}

\* the message of the error response
responseError == get(JSONparse(response.body).val, Key_error).text

\* C19: when parse-scope fails on a text the model returned, the caller gets
\* the unable-to-parse message; the rate-limit message is returned only when
\* the model call failed with the rate-limit error
C19_ParseFailuresAreReportedAsUnparsable ==
  (route = "parse-scope" /\ pc = "responded" /\ response.status = 500)
    => /\ result.kind = "text" => responseError = UnableToParse
       /\ responseError = RateLimitReached
            => result = [kind |-> "error", text |-> RateLimitError]

\* C20: the review page mounted with nothing stored under scopeData opens the
\* upload page, sets no error, loads no trades and clears the loading flag
C20_NoStoredRecordRedirects ==
  [][(pc = "mount" /\ scopeData = <<>>)
       => /\ stage' = "upload"
          /\ trades' = <<>>
          /\ error' = error
          /\ ~renderError'
          /\ ~loading'
          /\ pc' = "loaded"
    ]_allvars

\* the review page was opened with nothing stored and the upload page is shown
C20_Witness ==
  /\ pc = "loaded"
  /\ scopeData = <<>>
  /\ stage = "upload"
  /\ trades = <<>>
  /\ ~loading

\* C24: for every trade with a line item, a checked trade has a checked line
\* item, and a trade whose line items are all checked is checked
C24_TradeFlagFollowsLineItems ==
  stage = "review" =>
    \A j \in DOMAIN trades :
      Len(trades[j].lineItems) >= 1 =>
        /\ trades[j].checked => CheckedItems(trades[j]) # {}
        /\ UncheckedItems(trades[j]) = {} => trades[j].checked

\* a trade that stayed checked after one of its line items was unchecked, next
\* to a trade whose line items were all checked one by one
C24_Witness ==
  /\ stage = "review"
  /\ Len(trades) = 2
  /\ trades[1].checked
  /\ CheckedItems(trades[1]) # {}
  /\ UncheckedItems(trades[1]) # {}
  /\ trades[2].checked
  /\ Len(trades[2].lineItems) >= 1

\* C25: in a record whose trades have distinct names, a trade that the
\* work-not-doing text lists as "<name> (entire trade)" has no checked line
\* item
C25_EntireTradeLinesHaveNoCheckedItem ==
  (stage = "review" /\ NamesDistinct)
    => LET lines == uncheckedItems(trades, Len(trades))
       IN  \A j \in DOMAIN trades :
             (\E i \in DOMAIN lines : lines[i] = trades[j].name \o " (entire trade)")
               => CheckedItems(trades[j]) = {}

\* C26: the supplements of a trade have pairwise distinct ids
C26_SupplementIdsDistinct ==
  \A j \in DOMAIN trades :
    \A a, b \in DOMAIN trades[j].supplements :
      trades[j].supplements[a].id = trades[j].supplements[b].id => a = b

\* C28: with a deductible that is not negative, the amount under "Deposit +
\* Progress Payment (ACV Total)", dueToday + dueSub, is totalAcv
C28_DepositPlusProgressIsTotalAcv ==
  (Summary /\ deductible >= 0) => dueTodayX2 + dueSubX2 = 2 * totals.totalAcv

\* C23: a model text that is valid JSON once cleaned is answered by
\* process-document with status 200 and exactly the value the cleaned text
\* denotes
C23_ValidTextIsReturnedUnaltered ==
  (route = "process-document" /\ pc = "responded" /\ result.kind = "text"
     /\ JSONparse(cleanText(result.text)).ok)
    => response = Json(200, JSONparse(cleanText(result.text)).val)


\* the metadata of record written equals that of record uploaded: the claim
\* number and the adjuster, and the representative and the customer when the
\* upload page stored them
sameMetadata(uploaded, written) ==
  /\ get(written, Key_claimNumber) = get(uploaded, Key_claimNumber)
  /\ get(written, Key_claimAdjuster) = get(uploaded, Key_claimAdjuster)
  /\ get(uploaded, Key_rep).kind # "undefined"
       => get(written, Key_rep) = get(uploaded, Key_rep)
  /\ get(uploaded, Key_customer).kind # "undefined"
       => get(written, Key_customer) = get(uploaded, Key_customer)

\* C21: when the reviewer finalizes, the record written under scopeData has
\* the claim number, adjuster, representative and customer of the record the
\* upload page stored, and the summary page reads these from it
C21_MetadataPassedThrough ==
  [][/\ (stage = "review" /\ stage' = "summary")
          => sameMetadata(storedData.val, JSONparse(scopeData'[1]).val)
     /\ (pc = "summary-mount" /\ pc' = "summary" /\ stage' = "summary")
          => /\ claimNumber' = get(storedData.val, Key_claimNumber)
             /\ claimAdjuster' = get(storedData.val, Key_claimAdjuster)
             /\ rep' = get(storedData.val, Key_rep)
             /\ customer' = get(storedData.val, Key_customer)]_allvars


\* the step is a delivery that failed: a send without a customer or without
\* the printable element, a PDF generation that threw, a webhook call that
\* threw or was answered with a status that is not ok
deliveryFailed ==
  \/ pc = "summary" /\ pc' = "summary" /\ stage = "summary" /\ stage' = "summary"
  \/ pc = "pdf" /\ pc' = "summary"
  \/ pc = "webhook" /\ pc' = "summary" /\ result'.kind # "value"

\* the message of the failure the step ended with
failureMessage ==
  IF pc = "summary"
  THEN IF ~truthy(customer) \/ ~truthy(get(customer, Key_jnid))
       THEN NoCustomerSelected
       ELSE UnableToGeneratePdf
  ELSE IF result'.kind = "error" THEN result'.text
  ELSE FailedToSend

\* C22: a failed delivery leaves trades, deductible and the stored record as
\* they were, sets sendingError to the failure's message and leaves the
\* sending flag false, with the page ready for another send
C22_FailedDeliveryLeavesRecord ==
  [][deliveryFailed =>
       /\ UNCHANGED <<trades, deductible, scopeData>>
       /\ sendingError' = failureMessage
       /\ sendingError' # <<>>
       /\ sendingToJobNimbus' = FALSE
       /\ pc' = "summary"]_allvars

C22_Witness ==
  /\ pc = "summary"
  /\ result.kind = "error"
  /\ response.status = 500
  /\ sendingError = FailedToSend \o ColonSpace \o <<"5", "0", "0">>
  /\ ~sendingToJobNimbus
  /\ scopeData # <<>>
  /\ trades # <<>>


\* the line items of a trade before and after: as many, in the same order,
\* with the same ids, rcv and acv
sameLineItems(before, after) ==
  /\ Len(after) = Len(before)
  /\ \A k \in DOMAIN before :
       /\ after[k].id = before[k].id
       /\ after[k].rcv = before[k].rcv
       /\ after[k].acv = before[k].acv

\* the step added a supplement or set the notes of a line item
addsSupplementOrNotes ==
  \E j \in DOMAIN trades :
    \/ Len(trades'[j].supplements) > Len(trades[j].supplements)
    \/ \E k \in DOMAIN trades[j].lineItems :
         /\ "notes" \in DOMAIN trades'[j].lineItems[k]
         /\ \/ "notes" \notin DOMAIN trades[j].lineItems[k]
            \/ trades'[j].lineItems[k].notes # trades[j].lineItems[k].notes

\* C27: a mutation of the review page changes one trade at most, keeps the
\* number and order of the trades and the number, order, ids, rcv and acv of
\* the line items; adding a supplement and setting notes change no total
C27_MutationsAreLocal ==
  [][(stage = "review" /\ stage' = "review") =>
       /\ Len(trades') = Len(trades)
       /\ \A j \in DOMAIN trades :
            /\ trades'[j].id = trades[j].id
            /\ trades'[j].name = trades[j].name
            /\ sameLineItems(trades[j].lineItems, trades'[j].lineItems)
       /\ \A i, j \in DOMAIN trades :
            (trades'[i] # trades[i] /\ trades'[j] # trades[j]) => i = j
       /\ addsSupplementOrNotes =>
            /\ totals' = totals
            /\ calculateTotals(trades') = calculateTotals(trades)]_allvars

\* two trades with a line item each, the notes of the first trade's item set
C27_Witness ==
  /\ stage = "review"
  /\ Len(trades) = 2
  /\ Len(trades[1].lineItems) = 1
  /\ Len(trades[2].lineItems) = 1
  /\ "notes" \in DOMAIN trades[1].lineItems[1]
  /\ "notes" \notin DOMAIN trades[2].lineItems[1]
  /\ Len(trades[2].supplements) = 1


\* the result list is open with customers in it
resultsShown == showSearchResults /\ searchResults # <<>>

\* C29: a step that fills or opens the result list shows the customers of the
\* query typed last, and no customers are shown while the query has fewer
\* than 2 characters
C29_ResultsAreOfLatestQuery ==
  [][/\ (resultsShown' /\ <<searchResults, showSearchResults>>' # <<searchResults, showSearchResults>>)
          => searchResults' = resultsOf(customerSearch')
     /\ Len(trim(customerSearch')) < 2 => ~resultsShown']_allvars


\* the file lies in the directory tmp-pdfs of the server
insideTmpPdfs(file) == startsWith(file.path, Cwd \o <<"/">> \o TmpPdfs \o <<"/">>)

\* C30: a response of the GET handler carries the bytes of a file of the
\* directory tmp-pdfs with status 200, or an error status and the bytes of no
\* file
C30_OnlyFilesOfTmpPdfsAreServed ==
  pc = "served" =>
    IF response.status = 200
    THEN \E f \in Files : response.body = f.bytes /\ insideTmpPdfs(f)
    ELSE /\ response.status \in {403, 404}
         /\ \A f \in Files : response.body # f.bytes

\* a saved PDF has been served
C30_Witness ==
  /\ pc = "served"
  /\ response.status = 200
  /\ response.body = <<"%", "P", "D", "F", "1">>
  /\ pathname = GetPdf \o <<"1", "/", "1">>
====
